---- MODULE Spec2Model ----
(***************************************************************************)
(* Zedra host RPC core: the frame codec and message protocol of zedra-rpc, *)
(* the per-connection dispatcher RpcServer::serve, the RPC client          *)
(* RpcClient, and the terminal session manager of the zedra-host daemon.   *)
(***************************************************************************)
EXTENDS Integers, Sequences, FiniteSets, TLC

(***************************************************************************)
(* serde_json::Value.  A JSON object is a function from field names to     *)
(* JSON values.  Garbage stands for payload bytes that are not JSON.       *)
(***************************************************************************)
Null == [t |-> "null"]
JBool(b) == [t |-> "bool", b |-> b]
JNum(n) == [t |-> "number", n |-> n]
JStr(s) == [t |-> "string", s |-> s]
JArr(a) == [t |-> "array", a |-> a]
JObj(f) == [t |-> "object", f |-> f]
Garbage == [t |-> "invalid"]
EmptyFields == [k \in {} |-> Null]

HasField(j, k) == j.t = "object" /\ k \in DOMAIN j.f
IsStringField(j, k) == HasField(j, k) /\ j.f[k].t = "string"
\* an unsigned 64-bit JSON number: no sign, no fraction
IsU64Field(j, k) == HasField(j, k) /\ j.f[k].t = "number" /\ j.f[k].n >= 0
IsIntField(j, k) == HasField(j, k) /\ j.f[k].t = "number"

(***************************************************************************)
(* Option<T>                                                               *)
(***************************************************************************)
None == [t |-> "None"]
Some(v) == [t |-> "Some", v |-> v]

(***************************************************************************)
(* protocol.rs: error codes and method names                               *)
(***************************************************************************)
PARSE_ERROR == -32700
INVALID_REQUEST == -32600
METHOD_NOT_FOUND == -32601
INVALID_PARAMS == -32602
INTERNAL_ERROR == -32603

FS_READ == "fs/read"
TERM_CREATE == "terminal/create"
TERM_DATA == "terminal/data"
TERM_RESIZE == "terminal/resize"
TERM_CLOSE == "terminal/close"
LSP_HOVER == "lsp/hover"

(***************************************************************************)
(* protocol.rs: Request, Response, Notification, RpcError and the          *)
(* envelope Message.  The enum variant is the field kind.                  *)
(***************************************************************************)
Request(id, method, params) ==
    [kind |-> "Request", jsonrpc |-> "2.0", id |-> id, method |-> method,
     params |-> params]

Notification_new(method, params) ==
    [kind |-> "Notification", jsonrpc |-> "2.0", method |-> method,
     params |-> params]

RpcError(code, message) == [code |-> code, message |-> message, data |-> None]

Response_ok(id, result) ==
    [kind |-> "Response", jsonrpc |-> "2.0", id |-> id,
     result |-> Some(result), error |-> None]

Response_err(id, code, message) ==
    [kind |-> "Response", jsonrpc |-> "2.0", id |-> id,
     result |-> None, error |-> Some(RpcError(code, message))]

(***************************************************************************)
(* #[derive(Serialize)]: the JSON object written for each message.         *)
(* skip_serializing_if leaves out a null params and a None result, error   *)
(* or data; a Some(v) is written as v, so Some(null) is written as null.   *)
(***************************************************************************)
SerRpcError(e) ==
    JObj([k \in {"code", "message"} \cup (IF e.data = None THEN {} ELSE {"data"}) |->
            CASE k = "code" -> JNum(e.code)
              [] k = "message" -> JStr(e.message)
              [] OTHER -> e.data.v])

SerRequest(r) ==
    JObj([k \in {"jsonrpc", "id", "method"} \cup (IF r.params = Null THEN {} ELSE {"params"}) |->
            CASE k = "jsonrpc" -> JStr(r.jsonrpc)
              [] k = "id" -> JNum(r.id)
              [] k = "method" -> JStr(r.method)
              [] OTHER -> r.params])

SerResponse(r) ==
    JObj([k \in {"jsonrpc", "id"}
                \cup (IF r.result = None THEN {} ELSE {"result"})
                \cup (IF r.error = None THEN {} ELSE {"error"}) |->
            CASE k = "jsonrpc" -> JStr(r.jsonrpc)
              [] k = "id" -> JNum(r.id)
              [] k = "result" -> r.result.v
              [] OTHER -> SerRpcError(r.error.v)])

SerNotification(n) ==
    JObj([k \in {"jsonrpc", "method"} \cup (IF n.params = Null THEN {} ELSE {"params"}) |->
            CASE k = "jsonrpc" -> JStr(n.jsonrpc)
              [] k = "method" -> JStr(n.method)
              [] OTHER -> n.params])

to_vec(m) ==
    CASE m.kind = "Request" -> SerRequest(m)
      [] m.kind = "Response" -> SerResponse(m)
      [] OTHER -> SerNotification(m)

(***************************************************************************)
(* #[derive(Deserialize)].  A field that is missing takes its default (a   *)
(* null params, a None option); a field of type Option<T> that is present  *)
(* with the value null is None; unknown fields are ignored.                *)
(***************************************************************************)
DeField(j, k) == IF HasField(j, k) THEN j.f[k] ELSE Null

DeOptionValue(j, k) == IF DeField(j, k) = Null THEN None ELSE Some(j.f[k])

IsRpcError(e) ==
    /\ IsIntField(e, "code")
    /\ IsStringField(e, "message")

DeRpcError(e) ==
    [code |-> e.f["code"].n, message |-> e.f["message"].s,
     data |-> DeOptionValue(e, "data")]

IsRequest(j) ==
    /\ IsStringField(j, "jsonrpc")
    /\ IsU64Field(j, "id")
    /\ IsStringField(j, "method")

IsResponse(j) ==
    /\ IsStringField(j, "jsonrpc")
    /\ IsU64Field(j, "id")
    /\ (DeField(j, "error") = Null \/ IsRpcError(j.f["error"]))

IsNotification(j) ==
    /\ IsStringField(j, "jsonrpc")
    /\ IsStringField(j, "method")

DeRequest(j) ==
    [kind |-> "Request", jsonrpc |-> j.f["jsonrpc"].s, id |-> j.f["id"].n,
     method |-> j.f["method"].s, params |-> DeField(j, "params")]

DeResponse(j) ==
    [kind |-> "Response", jsonrpc |-> j.f["jsonrpc"].s, id |-> j.f["id"].n,
     result |-> DeOptionValue(j, "result"),
     error |-> IF DeField(j, "error") = Null THEN None
               ELSE Some(DeRpcError(j.f["error"]))]

DeNotification(j) ==
    [kind |-> "Notification", jsonrpc |-> j.f["jsonrpc"].s,
     method |-> j.f["method"].s, params |-> DeField(j, "params")]

ReadErr(why) == [kind |-> "Err", why |-> why]

\* #[serde(untagged)] enum Message: the first variant that fits, in
\* declaration order Request, Response, Notification
from_slice(payload) ==
    CASE IsRequest(payload) -> DeRequest(payload)
      [] IsResponse(payload) -> DeResponse(payload)
      [] IsNotification(payload) -> DeNotification(payload)
      [] OTHER -> ReadErr("parse")

(***************************************************************************)
(* transport.rs: the frame [4-byte big-endian length][payload].  PayloadLen*)
(* is the payload's byte count, measured in abstract units.                *)
(***************************************************************************)
MaxFrameLen == 16 * 1024 * 1024

\* the text of a file of 17 MiB
BigContent == "<17 MiB of text>"

\* payload.len(): the braces and one unit per field, and the bytes of a
\* large file content carried in a result
PayloadLen(payload) ==
    IF payload.t = "object"
    THEN 2 + Cardinality(DOMAIN payload.f)
           + (IF /\ HasField(payload, "result")
                 /\ IsStringField(payload.f["result"], "content")
                 /\ payload.f["result"].f["content"].s = BigContent
              THEN 17 * 1024 * 1024
              ELSE 0)
    ELSE 1

\* the prefix is payload.len() as u32, which is payload.len() for every
\* payload below 4 GiB; nothing compares the length with MaxFrameLen
write_message(msg) ==
    [len |-> PayloadLen(to_vec(msg)), payload |-> to_vec(msg)]

\* bytes read_message takes off the stream: the prefix, then the payload
\* unless the prefix is refused
HeaderLen == 4
BytesRead(frame) ==
    IF frame.len > MaxFrameLen THEN HeaderLen ELSE HeaderLen + frame.len

\* variant: a length of exactly 16 MiB is refused too
read_message_strict(frame) ==
    IF frame.len >= MaxFrameLen
    THEN ReadErr("message too large")
    ELSE from_slice(frame.payload)

read_message(frame) ==
    IF frame.len > MaxFrameLen
    THEN ReadErr("message too large")
    ELSE from_slice(frame.payload)

(***************************************************************************)
(* Bounds of the model                                                     *)
(***************************************************************************)
\* frames a connection's dispatcher reads before the peer goes quiet
MaxFrames == 3
\* frames the two connections of the daemon runs read in all
MaxOps == 4
\* terminal identifiers the daemon mints in one run
MaxTerms == 2

Conns == {"A", "B"}
NoMsg == [kind |-> "none"]
NoLock == "free"

VARIABLES
    pc,            \* per connection: where its task stands in serve and its handler
    cur,           \* per connection: the request being dispatched (req)
    resp,          \* per connection: the response about to be written
    hres,          \* per connection: what the handler returned, until resp is written
    handlers,      \* per connection: RpcServer.handlers, the registered method names
    peer,          \* per connection: the peer's end of the stream
    nread,         \* per connection: frames read so far
    local,         \* per connection: the handler's local id (terminal/create)
    terminals,     \* DaemonState.terminals: id -> session
    next_term_id,  \* DaemonState.next_term_id
    termLock,      \* holder of the terminals mutex
    created,       \* history: ids inserted by terminal/create, in order
    closeExec,     \* history: ids a terminal/close has executed on
    closedLive,    \* history: ids whose live session a terminal/close removed
    inlog,         \* history, per connection: results of read_message, in order
    invoked,       \* history, per connection: handler invocations, in order
    results,       \* history, per connection: what each request's handler returned
    out,           \* history, per connection: frames written to the peer, in order
    rdlog,         \* history, per connection: length prefix and bytes taken by each read_message
    NEXT_ID,       \* protocol.rs: the process-wide request id counter
    pending,       \* RpcClient.pending: request id -> the call whose oneshot sender it holds
    txq,           \* RpcClient.tx: payloads queued for the writer task
    c2s,           \* the stream from the client's writer to the server
    s2c,           \* the stream from the server to the client's reader
    cpc,           \* per call: where RpcClient::call stands
    creq,          \* per call: the request it built
    rx,            \* per call: its oneshot receiver
    cret,          \* per call: what call returned
    readerUp,      \* the client's reader task is running
    writerUp,      \* the client's writer task is running
    PAIRING_TOKENS, \* auth.rs: the Vec<PairingToken> behind the static mutex
    now,           \* the monotonic clock (Instant), in seconds
    authLock,      \* holder of the PAIRING_TOKENS mutex
    vcall,         \* per thread: its validate_pairing_token call in progress
    issued,        \* history: the tokens create_pairing_token returned, and when
    verdicts       \* history: what each validate_pairing_token call returned

core == <<pc, cur, resp, hres, handlers, peer, nread, local, terminals, next_term_id,
          termLock, created, closeExec, closedLive>>
logs == <<inlog, invoked, results, out, rdlog>>
client == <<NEXT_ID, pending, txq, c2s, s2c, cpc, creq, rx, cret, readerUp, writerUp>>
auth == <<PAIRING_TOKENS, now, authLock, vcall, issued, verdicts>>
vars == <<core, logs, client, auth>>

(***************************************************************************)
(* rpc_daemon.rs: build_server registers these methods                     *)
(***************************************************************************)
Catalog ==
    {"fs/list", "fs/read", "fs/write", "fs/stat",
     "git/status", "git/diff", "git/log", "git/commit", "git/branches",
     "git/checkout",
     "terminal/create", "terminal/data", "terminal/resize", "terminal/close",
     "ai/prompt", "lsp/diagnostics", "lsp/hover"}

\* a handler's Result<serde_json::Value>
Ok(v) == [ok |-> TRUE, v |-> v]
Err(msg) == [ok |-> FALSE, msg |-> msg]
NoResult == [none |-> TRUE]

\* DaemonState::next_terminal_id: format!("term-{}", current)
TermName(n) == "term-" \o ToString(n)

IsU16Field(j, k) == IsIntField(j, k) /\ j.f[k].n \in 0..65535

\* serde_json::from_value::<T>(params).  The error text is serde's (which
\* also puts the field name in backquotes).
MissingField(k) == "missing field " \o k
IsFsReadParams(p) == IsStringField(p, "path")
IsTermCreateParams(p) == IsU16Field(p, "cols") /\ IsU16Field(p, "rows")
IsTermDataParams(p) == IsStringField(p, "id") /\ IsStringField(p, "data")
IsTermResizeParams(p) ==
    IsStringField(p, "id") /\ IsU16Field(p, "cols") /\ IsU16Field(p, "rows")

\* base64_url::decode / encode over the byte strings of the model.
\* "aGkK" is "hi\n"; "a+b/" uses the standard alphabet and is rejected.
Base64Url == [enc \in {"", "aGkK"} |-> IF enc = "" THEN "" ELSE "hi\n"]
IsBase64Url(s) == s \in DOMAIN Base64Url
base64_url_decode(s) == Base64Url[s]
base64_url_encode(bytes) == CHOOSE enc \in DOMAIN Base64Url : Base64Url[enc] = bytes

\* a session as terminal/create inserts it: the PTY of the requested
\* geometry, nothing written, no output pending
NewSession(cols, rows) ==
    [cols |-> cols, rows |-> rows, input |-> 0, output |-> "none"]

Insert(map, k, v) ==
    [i \in DOMAIN map \cup {k} |-> IF i = k THEN v ELSE map[i]]
\* a remove that leaves the entry in place
Remove_keep(map, k) == map
Remove(map, k) == [i \in DOMAIN map \ {k} |-> map[i]]

(***************************************************************************)
(* run_daemon / handle_connection: accept a connection, build its server   *)
(***************************************************************************)
Accept(c) ==
    /\ pc[c] = "idle"
    /\ pc' = [pc EXCEPT ![c] = "accepted"]
    /\ peer' = [peer EXCEPT ![c] = "open"]
    /\ UNCHANGED <<cur, resp, hres, handlers, nread, local, terminals, next_term_id,
                   termLock, created, closeExec, closedLive>>

\* variant: serve starts on a registry that lacks its last registration
BuildServer_partial(c) ==
    /\ pc[c] = "accepted"
    /\ pc' = [pc EXCEPT ![c] = "read"]
    /\ handlers' = [handlers EXCEPT ![c] = Catalog \ {LSP_HOVER}]
    /\ UNCHANGED <<cur, resp, hres, peer, nread, local, terminals, next_term_id,
                   termLock, created, closeExec, closedLive>>

\* handle_connection: build_server(state) registers every handler, then
\* serve starts reading
BuildServer(c) ==
    /\ pc[c] = "accepted"
    /\ pc' = [pc EXCEPT ![c] = "read"]
    /\ handlers' = [handlers EXCEPT ![c] = Catalog]
    /\ UNCHANGED <<cur, resp, hres, peer, nread, local, terminals, next_term_id,
                   termLock, created, closeExec, closedLive>>

\* the peer closes its stream: later reads fail, later writes fail
PeerClose(c) ==
    /\ peer[c] = "open"
    /\ peer' = [peer EXCEPT ![c] = "closed"]
    /\ UNCHANGED <<pc, cur, resp, hres, handlers, nread, local, terminals,
                   next_term_id, termLock, created, closeExec, closedLive>>

(***************************************************************************)
(* RpcServer::serve                                                        *)
(***************************************************************************)
daemonState == <<terminals, next_term_id, termLock, created, closeExec, closedLive>>

\* variant: the sessions are dropped when a connection ends
ReadEof_reap(c) ==
    /\ pc[c] = "read"
    /\ peer[c] = "closed"
    /\ pc' = [pc EXCEPT ![c] = "returned_ok"]
    /\ terminals' = EmptyFields
    /\ UNCHANGED <<cur, resp, hres, handlers, peer, nread, local, next_term_id,
                   termLock, created, closeExec, closedLive>>

\* read_message fails on a closed stream: break, serve returns Ok(())
ReadEof(c) ==
    /\ pc[c] = "read"
    /\ peer[c] = "closed"
    /\ pc' = [pc EXCEPT ![c] = "returned_ok"]
    /\ UNCHANGED <<cur, resp, hres, handlers, peer, nread, local, daemonState>>

\* variant: the next frame is read while a response is still to be written
ReadMessage_ahead(c, frame) ==
    /\ pc[c] \in {"read", "write"}
    /\ peer[c] = "open"
    /\ nread' = [nread EXCEPT ![c] = @ + 1]
    /\ LET msg == read_message(frame) IN
         CASE msg.kind = "Err" ->
                /\ pc' = [pc EXCEPT ![c] = "returned_ok"]
                /\ cur' = cur
           [] msg.kind = "Request" ->
                /\ pc' = [pc EXCEPT ![c] = "dispatch"]
                /\ cur' = [cur EXCEPT ![c] = msg]
           [] OTHER ->
                /\ pc' = pc
                /\ cur' = cur
    /\ UNCHANGED <<resp, hres, handlers, peer, local, daemonState>>

\* variant: a notification is dispatched like a request
ReadMessage_notif(c, frame) ==
    /\ pc[c] = "read"
    /\ peer[c] = "open"
    /\ nread' = [nread EXCEPT ![c] = @ + 1]
    /\ LET msg == read_message(frame) IN
         CASE msg.kind = "Err" ->
                /\ pc' = [pc EXCEPT ![c] = "returned_ok"]
                /\ cur' = cur
           [] msg.kind = "Request" ->
                /\ pc' = [pc EXCEPT ![c] = "dispatch"]
                /\ cur' = [cur EXCEPT ![c] = msg]
           [] msg.kind = "Notification" ->
                /\ pc' = [pc EXCEPT ![c] = "dispatch"]
                /\ cur' = [cur EXCEPT ![c] = Request(0, msg.method, msg.params)]
           [] OTHER ->
                /\ pc' = pc
                /\ cur' = cur
    /\ UNCHANGED <<resp, hres, handlers, peer, local, daemonState>>

\* variant: a frame that cannot be read takes the daemon's sessions with it
ReadMessage_teardown(c, frame) ==
    /\ pc[c] = "read"
    /\ peer[c] = "open"
    /\ nread' = [nread EXCEPT ![c] = @ + 1]
    /\ LET msg == read_message(frame) IN
         CASE msg.kind = "Err" ->
                /\ pc' = [pc EXCEPT ![c] = "returned_ok"]
                /\ cur' = cur
                /\ terminals' = EmptyFields
           [] msg.kind = "Request" ->
                /\ pc' = [pc EXCEPT ![c] = "dispatch"]
                /\ cur' = [cur EXCEPT ![c] = msg]
                /\ terminals' = terminals
           [] OTHER ->
                /\ pc' = pc
                /\ cur' = cur
                /\ terminals' = terminals
    /\ UNCHANGED <<resp, hres, handlers, peer, local, next_term_id, termLock,
                   created, closeExec, closedLive>>

\* variant: a frame that cannot be read is answered with a parse error
ReadMessage_parse_error(c, frame) ==
    /\ pc[c] = "read"
    /\ peer[c] = "open"
    /\ nread' = [nread EXCEPT ![c] = @ + 1]
    /\ LET msg == read_message(frame) IN
         CASE msg.kind = "Err" ->
                /\ pc' = [pc EXCEPT ![c] = "write"]
                /\ cur' = cur
                /\ resp' = [resp EXCEPT ![c] = Response_err(0, PARSE_ERROR, "parse error")]
           [] msg.kind = "Request" ->
                /\ pc' = [pc EXCEPT ![c] = "dispatch"]
                /\ cur' = [cur EXCEPT ![c] = msg]
                /\ resp' = resp
           [] OTHER ->
                /\ pc' = pc
                /\ cur' = cur
                /\ resp' = resp
    /\ UNCHANGED <<hres, handlers, peer, local, daemonState>>

\* variant: a frame that is refused is skipped and the loop reads on
ReadMessage_resync(c, frame) ==
    /\ pc[c] = "read"
    /\ peer[c] = "open"
    /\ nread' = [nread EXCEPT ![c] = @ + 1]
    /\ LET msg == read_message(frame) IN
         CASE msg.kind = "Request" ->
                /\ pc' = [pc EXCEPT ![c] = "dispatch"]
                /\ cur' = [cur EXCEPT ![c] = msg]
           [] OTHER ->
                /\ pc' = pc
                /\ cur' = cur
    /\ UNCHANGED <<resp, hres, handlers, peer, local, daemonState>>

\* variant: a stray response is written back to the peer
ReadMessage_bounce(c, frame) ==
    /\ pc[c] = "read"
    /\ peer[c] = "open"
    /\ nread' = [nread EXCEPT ![c] = @ + 1]
    /\ LET msg == read_message(frame) IN
         CASE msg.kind = "Err" ->
                /\ pc' = [pc EXCEPT ![c] = "returned_ok"]
                /\ UNCHANGED <<cur, resp>>
           [] msg.kind = "Request" ->
                /\ pc' = [pc EXCEPT ![c] = "dispatch"]
                /\ cur' = [cur EXCEPT ![c] = msg]
                /\ resp' = resp
           [] msg.kind = "Response" ->
                /\ pc' = [pc EXCEPT ![c] = "write"]
                /\ resp' = [resp EXCEPT ![c] = msg]
                /\ cur' = cur
           [] OTHER ->
                /\ UNCHANGED <<pc, cur, resp>>
    /\ UNCHANGED <<hres, handlers, peer, local, daemonState>>

\* one pass of the loop up to the match on msg
ReadMessage(c, frame) ==
    /\ pc[c] = "read"
    /\ peer[c] = "open"
    /\ nread' = [nread EXCEPT ![c] = @ + 1]
    /\ LET msg == read_message(frame) IN
         CASE msg.kind = "Err" ->
                /\ pc' = [pc EXCEPT ![c] = "returned_ok"]
                /\ cur' = cur
           [] msg.kind = "Request" ->
                /\ pc' = [pc EXCEPT ![c] = "dispatch"]
                /\ cur' = [cur EXCEPT ![c] = msg]
           [] OTHER ->
                \* Notification, Response: nothing to do
                /\ pc' = pc
                /\ cur' = cur
    /\ UNCHANGED <<resp, hres, handlers, peer, local, daemonState>>

\* variant: the wrong code of the reserved space
UnknownMethod_invalid(req) ==
    Response_err(req.id, INVALID_REQUEST, "unknown method: " \o req.method)

UnknownMethod(req) ==
    Response_err(req.id, METHOD_NOT_FOUND, "unknown method: " \o req.method)

\* variant: an unknown method is dropped without an answer
Dispatch_silent(c) ==
    /\ pc[c] = "dispatch"
    /\ IF cur[c].method \in handlers[c]
       THEN pc' = [pc EXCEPT ![c] = cur[c].method]
       ELSE pc' = [pc EXCEPT ![c] = "read"]
    /\ UNCHANGED <<cur, resp, hres, handlers, peer, nread, local, daemonState>>

\* self.handlers.get(&req.method): invoke the handler, or answer -32601
Dispatch(c) ==
    /\ pc[c] = "dispatch"
    /\ IF cur[c].method \in handlers[c]
       THEN /\ pc' = [pc EXCEPT ![c] = cur[c].method]
            /\ resp' = resp
       ELSE /\ pc' = [pc EXCEPT ![c] = "write"]
            /\ resp' = [resp EXCEPT ![c] = UnknownMethod(cur[c])]
    /\ hres' = hres
    /\ UNCHANGED <<cur, handlers, peer, nread, local, daemonState>>

\* variant: a failure is answered without its text
HandlerResponse_flat(req, res) ==
    IF res.ok
    THEN Response_ok(req.id, res.v)
    ELSE Response_err(req.id, INTERNAL_ERROR, "internal error")

\* match handler(req.params).await { Ok(result) => .., Err(e) => .. }
HandlerResponse(req, res) ==
    IF res.ok
    THEN Response_ok(req.id, res.v)
    ELSE Response_err(req.id, INTERNAL_ERROR, res.msg)

\* the handler of connection c returns res
Return(c, res) ==
    /\ pc' = [pc EXCEPT ![c] = "write"]
    /\ hres' = [hres EXCEPT ![c] = res]
    /\ resp' = [resp EXCEPT ![c] = HandlerResponse(cur[c], res)]

\* variant: the connection is dropped after an error response
WriteMessage_hangup(c) ==
    /\ pc[c] = "write"
    /\ pc' = [pc EXCEPT ![c] = IF peer[c] = "open" /\ resp[c].error = None
                               THEN "read" ELSE "returned_err"]
    /\ cur' = [cur EXCEPT ![c] = NoMsg]
    /\ resp' = [resp EXCEPT ![c] = NoMsg]
    /\ hres' = [hres EXCEPT ![c] = NoResult]
    /\ UNCHANGED <<handlers, peer, nread, local, daemonState>>

\* write_message(&mut writer, &resp).await?
WriteMessage(c) ==
    /\ pc[c] = "write"
    /\ pc' = [pc EXCEPT ![c] = IF peer[c] = "open" THEN "read" ELSE "returned_err"]
    /\ cur' = [cur EXCEPT ![c] = NoMsg]
    /\ resp' = [resp EXCEPT ![c] = NoMsg]
    /\ hres' = [hres EXCEPT ![c] = NoResult]
    /\ UNCHANGED <<handlers, peer, nread, local, daemonState>>

(***************************************************************************)
(* rpc_daemon.rs: handlers.  A step is the handler's code up to and        *)
(* including one critical section of a DaemonState mutex.                  *)
(***************************************************************************)
\* fs/read: the file system is outside the model, a read succeeds or fails
FsReadOutcomes ==
    {Ok(JObj([content |-> JStr("hello")])),
     Ok(JObj([content |-> JStr(BigContent)])),
     Err("No such file or directory (os error 2)")}

FsRead(c) ==
    /\ pc[c] = FS_READ
    /\ IF IsFsReadParams(cur[c].params)
       THEN \E res \in FsReadOutcomes : Return(c, res)
       ELSE Return(c, Err(MissingField("path")))
    /\ UNCHANGED <<cur, handlers, peer, nread, local, daemonState>>

\* lsp/hover: the path is read with unwrap_or(""), the answer is fixed
LspHover(c) ==
    /\ pc[c] = LSP_HOVER
    /\ Return(c, Ok(JObj([contents |->
                 JStr("LSP hover not yet connected to a language server.")])))
    /\ UNCHANGED <<cur, handlers, peer, nread, local, daemonState>>

\* the counter that never advances
next_terminal_id_stuck == [id |-> TermName(next_term_id), next |-> next_term_id]

\* DaemonState::next_terminal_id: the id it returns and the counter it leaves
next_terminal_id == [id |-> TermName(next_term_id), next |-> next_term_id + 1]

\* variant: the identifier is taken before the shell is spawned
TermCreate_mint_first(c) ==
    /\ pc[c] = TERM_CREATE
    /\ IF ~IsTermCreateParams(cur[c].params)
       THEN /\ Return(c, Err(MissingField("cols")))
            /\ UNCHANGED <<local, next_term_id>>
       ELSE /\ next_term_id <= MaxTerms
            /\ next_term_id' = next_terminal_id.next
            /\ \/ /\ \E why \in {"Failed to open PTY", "Failed to spawn shell"} :
                       Return(c, Err(why))
                  /\ local' = local
               \/ /\ local' = [local EXCEPT ![c] = next_terminal_id.id]
                  /\ pc' = [pc EXCEPT ![c] = "terminal/create:insert"]
                  /\ UNCHANGED <<resp, hres>>
    /\ UNCHANGED <<cur, handlers, peer, nread, terminals, termLock,
                   created, closeExec, closedLive>>

\* terminal/create up to next_terminal_id().await
TermCreate(c) ==
    /\ pc[c] = TERM_CREATE
    /\ IF ~IsTermCreateParams(cur[c].params)
       THEN /\ Return(c, Err(MissingField("cols")))
            /\ UNCHANGED <<local, next_term_id>>
       ELSE \/ /\ \E why \in {"Failed to open PTY", "Failed to spawn shell"} :
                     Return(c, Err(why))
               /\ UNCHANGED <<local, next_term_id>>
            \/ /\ next_term_id <= MaxTerms
               /\ local' = [local EXCEPT ![c] = next_terminal_id.id]
               /\ next_term_id' = next_terminal_id.next
               /\ pc' = [pc EXCEPT ![c] = "terminal/create:insert"]
               /\ UNCHANGED <<resp, hres>>
    /\ UNCHANGED <<cur, handlers, peer, nread, terminals, termLock,
                   created, closeExec, closedLive>>

\* terminal/create: s.terminals.lock().await.insert(id, session)
TermCreateInsert(c) ==
    /\ pc[c] = "terminal/create:insert"
    /\ termLock = NoLock
    /\ terminals' = Insert(terminals, local[c],
                           NewSession(cur[c].params.f["cols"].n, cur[c].params.f["rows"].n))
    /\ created' = Append(created, local[c])
    /\ Return(c, Ok(JObj([id |-> JStr(local[c])])))
    /\ local' = [local EXCEPT ![c] = ""]
    /\ UNCHANGED <<cur, handlers, peer, nread, next_term_id, termLock,
                   closeExec, closedLive>>

\* the error without the identifier
UnknownTerminal_bare(id) == Err("unknown terminal")

\* anyhow!("unknown terminal: {}", p.id)
UnknownTerminal(id) == Err("unknown terminal: " \o id)

\* variant: the session is looked up before the data is decoded
TermData_lookup_first(c) ==
    /\ pc[c] = TERM_DATA
    /\ LET p == cur[c].params IN
       IF ~IsTermDataParams(p)
       THEN /\ Return(c, Err(MissingField("id")))
            /\ UNCHANGED <<terminals, termLock>>
       ELSE /\ termLock = NoLock
            /\ IF p.f["id"].s \notin DOMAIN terminals
               THEN /\ Return(c, UnknownTerminal(p.f["id"].s))
                    /\ UNCHANGED <<terminals, termLock>>
               ELSE IF ~IsBase64Url(p.f["data"].s)
               THEN /\ Return(c, Err("bad base64: invalid character"))
                    /\ UNCHANGED <<terminals, termLock>>
               ELSE /\ terminals' = [terminals EXCEPT ![p.f["id"].s].input = @ + 1]
                    /\ termLock' = c
                    /\ pc' = [pc EXCEPT ![c] = "terminal/data:read"]
                    /\ UNCHANGED <<resp, hres>>
    /\ UNCHANGED <<cur, handlers, peer, nread, local, next_term_id,
                   created, closeExec, closedLive>>

\* terminal/data up to the write to the PTY; the terminals lock stays held
TermData(c) ==
    /\ pc[c] = TERM_DATA
    /\ LET p == cur[c].params IN
       IF ~IsTermDataParams(p)
       THEN /\ Return(c, Err(MissingField("id")))
            /\ UNCHANGED <<terminals, termLock>>
       ELSE IF ~IsBase64Url(p.f["data"].s)
       THEN /\ Return(c, Err("bad base64: invalid character"))
            /\ UNCHANGED <<terminals, termLock>>
       ELSE /\ termLock = NoLock
            /\ IF p.f["id"].s \notin DOMAIN terminals
               THEN /\ Return(c, UnknownTerminal(p.f["id"].s))
                    /\ UNCHANGED <<terminals, termLock>>
               ELSE \/ /\ terminals' = [terminals EXCEPT ![p.f["id"].s].input = @ + 1]
                       /\ termLock' = c
                       /\ pc' = [pc EXCEPT ![c] = "terminal/data:read"]
                       /\ UNCHANGED <<resp, hres>>
                    \/ /\ Return(c, Err("Input/output error (os error 5)"))
                       /\ UNCHANGED <<terminals, termLock>>
    /\ UNCHANGED <<cur, handlers, peer, nread, local, next_term_id,
                   created, closeExec, closedLive>>

\* terminal/data: sleep 10 ms, then term.reader.read(&mut buf), a blocking
\* read of the PTY master: it returns when output is pending (n > 0) or the
\* shell is gone (n = 0); the lock is released when the handler returns
TermDataRead(c) ==
    /\ pc[c] = "terminal/data:read"
    /\ LET id == cur[c].params.f["id"].s IN
         /\ terminals[id].output # "none"
         /\ IF terminals[id].output = "bytes"
            THEN /\ terminals' = [terminals EXCEPT ![id].output = "none"]
                 /\ Return(c, Ok(JObj([output |-> JStr(base64_url_encode("hi\n"))])))
            ELSE /\ terminals' = terminals
                 /\ Return(c, Ok(JObj([output |-> JStr("")])))
    /\ termLock' = NoLock
    /\ UNCHANGED <<cur, handlers, peer, nread, local, next_term_id,
                   created, closeExec, closedLive>>

\* terminal/resize
TermResize(c) ==
    /\ pc[c] = TERM_RESIZE
    /\ LET p == cur[c].params IN
       IF ~IsTermResizeParams(p)
       THEN /\ Return(c, Err(MissingField("id")))
            /\ terminals' = terminals
       ELSE /\ termLock = NoLock
            /\ IF p.f["id"].s \notin DOMAIN terminals
               THEN /\ Return(c, UnknownTerminal(p.f["id"].s))
                    /\ terminals' = terminals
               ELSE \/ /\ terminals' = [terminals EXCEPT
                                           ![p.f["id"].s].cols = p.f["cols"].n,
                                           ![p.f["id"].s].rows = p.f["rows"].n]
                       /\ Return(c, Ok(JObj([ok |-> JBool(TRUE)])))
                    \/ /\ terminals' = terminals
                       /\ Return(c, Err("resize failed: Bad file descriptor"))
    /\ UNCHANGED <<cur, handlers, peer, nread, local, next_term_id, termLock,
                   created, closeExec, closedLive>>

\* variant: a close that refuses an identifier the map does not hold
TermClose_strict(c) ==
    /\ pc[c] = TERM_CLOSE
    /\ LET p == cur[c].params IN
       IF ~IsStringField(p, "id")
       THEN /\ Return(c, Err("missing id"))
            /\ UNCHANGED <<terminals, closeExec, closedLive>>
       ELSE /\ termLock = NoLock
            /\ terminals' = Remove(terminals, p.f["id"].s)
            /\ closeExec' = closeExec \cup {p.f["id"].s}
            /\ closedLive' = closedLive \cup ({p.f["id"].s} \cap DOMAIN terminals)
            /\ IF p.f["id"].s \in DOMAIN terminals
               THEN Return(c, Ok(JObj([ok |-> JBool(TRUE)])))
               ELSE Return(c, UnknownTerminal(p.f["id"].s))
    /\ UNCHANGED <<cur, handlers, peer, nread, local, next_term_id, termLock, created>>

\* terminal/close
TermClose(c) ==
    /\ pc[c] = TERM_CLOSE
    /\ LET p == cur[c].params IN
       IF ~IsStringField(p, "id")
       THEN /\ Return(c, Err("missing id"))
            /\ UNCHANGED <<terminals, closeExec, closedLive>>
       ELSE /\ termLock = NoLock
            /\ terminals' = Remove(terminals, p.f["id"].s)
            /\ closeExec' = closeExec \cup {p.f["id"].s}
            /\ closedLive' = closedLive \cup ({p.f["id"].s} \cap DOMAIN terminals)
            /\ Return(c, Ok(JObj([ok |-> JBool(TRUE)])))
    /\ UNCHANGED <<cur, handlers, peer, nread, local, next_term_id, termLock, created>>

(***************************************************************************)
(* The shell behind a session: it prints, or it exits                      *)
(***************************************************************************)
ShellOutput(id) ==
    /\ id \in DOMAIN terminals
    /\ terminals[id].output = "none"
    /\ terminals' = [terminals EXCEPT ![id].output = "bytes"]
    /\ UNCHANGED <<pc, cur, resp, hres, handlers, peer, nread, local, next_term_id,
                   termLock, created, closeExec, closedLive>>

ShellExit(id) ==
    /\ id \in DOMAIN terminals
    /\ terminals[id].output # "eof"
    /\ terminals' = [terminals EXCEPT ![id].output = "eof"]
    /\ UNCHANGED <<pc, cur, resp, hres, handlers, peer, nread, local, next_term_id,
                   termLock, created, closeExec, closedLive>>

(***************************************************************************)
(* History of one connection, read off the step its task takes             *)
(***************************************************************************)
Observe(c, frame) ==
    /\ UNCHANGED auth
    /\ inlog' = IF nread'[c] # nread[c]
                THEN [inlog EXCEPT ![c] = Append(@, read_message(frame))]
                ELSE inlog
    /\ invoked' = IF pc[c] = "dispatch" /\ pc'[c] # "write"
                  THEN [invoked EXCEPT ![c] =
                          Append(@, [method |-> cur[c].method, params |-> cur[c].params])]
                  ELSE invoked
    /\ results' = IF pc[c] # "write" /\ pc'[c] = "write"
                  THEN [results EXCEPT ![c] = Append(@, hres'[c])]
                  ELSE results
    /\ out' = IF pc[c] = "write" /\ pc'[c] = "read"
              THEN [out EXCEPT ![c] = Append(@, write_message(resp[c]))]
              ELSE out
    /\ rdlog' = IF nread'[c] # nread[c]
                THEN [rdlog EXCEPT ![c] =
                        Append(@, [len |-> frame.len, taken |-> BytesRead(frame)])]
                ELSE rdlog

(***************************************************************************)
(* transport.rs: RpcClient.  A step of a call, of the writer task or of    *)
(* the reader task is the code up to and including one access to shared    *)
(* state (the id counter, the pending map, a channel, the stream).         *)
(***************************************************************************)
\* calls in flight at once on one client
MaxCalls == 2
CallTasks == 1..MaxCalls
\* mpsc::channel::<Vec<u8>>(64)
TxCapacity == 64

RxNone == [st |-> "none"]
RxEmpty == [st |-> "empty"]
RxDropped == [st |-> "dropped"]
RxValue(r) == [st |-> "value", v |-> r]

clientTasks == <<txq, c2s, s2c, readerUp, writerUp>>

\* variant: an id source that hands out the previous id again
next_id_stale == IF NEXT_ID > 1 THEN NEXT_ID - 1 ELSE NEXT_ID

\* protocol.rs next_id: NEXT_ID.fetch_add(1, Relaxed)
next_id == NEXT_ID

\* variant: the request is queued for the writer before it is registered
CallNew_send_first(k, method, params) ==
    /\ cpc[k] = "idle"
    /\ creq' = [creq EXCEPT ![k] = Request(next_id, method, params)]
    /\ NEXT_ID' = NEXT_ID + 1
    /\ txq' = Append(txq, to_vec(Request(next_id, method, params)))
    /\ cpc' = [cpc EXCEPT ![k] = "register"]
    /\ UNCHANGED <<pending, rx, cret, c2s, s2c, readerUp, writerUp>>

\* Request::new(method, params): a fresh id
CallNew(k, method, params) ==
    /\ cpc[k] = "idle"
    /\ creq' = [creq EXCEPT ![k] = Request(next_id, method, params)]
    /\ NEXT_ID' = NEXT_ID + 1
    /\ cpc' = [cpc EXCEPT ![k] = "register"]
    /\ UNCHANGED <<pending, rx, cret, clientTasks>>

\* self.pending.lock().await.insert(id, tx); an entry it replaces is dropped
CallRegister(k) ==
    /\ cpc[k] = "register"
    /\ pending' = Insert(pending, creq[k].id, k)
    /\ rx' = [j \in CallTasks |->
                IF j = k THEN RxEmpty
                ELSE IF creq[k].id \in DOMAIN pending /\ pending[creq[k].id] = j
                     THEN RxDropped
                     ELSE rx[j]]
    /\ cpc' = [cpc EXCEPT ![k] = "send"]
    /\ UNCHANGED <<NEXT_ID, creq, cret, clientTasks>>

\* self.tx.send(payload).await, "transport closed" when the writer is gone
CallSend(k) ==
    /\ cpc[k] = "send"
    /\ IF writerUp
       THEN /\ Len(txq) < TxCapacity
            /\ txq' = Append(txq, to_vec(creq[k]))
            /\ cpc' = [cpc EXCEPT ![k] = "await"]
            /\ cret' = cret
       ELSE /\ txq' = txq
            /\ cpc' = [cpc EXCEPT ![k] = "done"]
            /\ cret' = [cret EXCEPT ![k] = Err("transport closed")]
    /\ UNCHANGED <<NEXT_ID, pending, creq, rx, c2s, s2c, readerUp, writerUp>>

\* rx.await
CallAwait(k) ==
    /\ cpc[k] = "await"
    /\ rx[k].st \in {"value", "dropped"}
    /\ cret' = [cret EXCEPT ![k] =
                  IF rx[k].st = "value" THEN Ok(rx[k].v)
                  ELSE Err("response channel dropped")]
    /\ cpc' = [cpc EXCEPT ![k] = "done"]
    /\ UNCHANGED <<NEXT_ID, pending, creq, rx, clientTasks>>

\* the writer task: length prefix, payload, flush
WriterStep ==
    /\ writerUp
    /\ txq # <<>>
    /\ txq' = Tail(txq)
    /\ IF peer["A"] = "open"
       THEN /\ c2s' = Append(c2s, [len |-> PayloadLen(Head(txq)), payload |-> Head(txq)])
            /\ writerUp' = writerUp
       ELSE /\ c2s' = c2s
            /\ writerUp' = FALSE
    /\ UNCHANGED <<NEXT_ID, pending, creq, rx, cret, cpc, s2c, readerUp>>

\* the response handed to the oldest pending call, whatever its id
Waiter_oldest(map, r) ==
    IF DOMAIN map = {} THEN {}
    ELSE {map[CHOOSE i \in DOMAIN map : \A j \in DOMAIN map : i <= j]}

\* map.remove(&resp.id): the call the response is handed to
Waiter(map, r) ==
    IF r.id \in DOMAIN map THEN {map[r.id]} ELSE {}

\* the reader task: one pass of its loop
ReaderStep ==
    /\ readerUp
    /\ s2c # <<>>
    /\ s2c' = Tail(s2c)
    /\ LET msg == read_message(Head(s2c)) IN
         CASE msg.kind = "Response" ->
                /\ pending' = Remove(pending, msg.id)
                /\ rx' = [j \in CallTasks |->
                            IF j \in Waiter(pending, msg) THEN RxValue(msg) ELSE rx[j]]
                /\ readerUp' = readerUp
           [] msg.kind = "Err" ->
                /\ readerUp' = FALSE
                /\ UNCHANGED <<pending, rx>>
           [] OTHER ->
                \* a Notification goes to the notification channel, a Request is ignored
                UNCHANGED <<pending, rx, readerUp>>
    /\ UNCHANGED <<NEXT_ID, creq, cret, cpc, txq, c2s, writerUp>>

\* tests::client_server_call: server.register("echo", |params| Ok(params))
Echo(c) ==
    /\ pc[c] = "echo"
    /\ Return(c, Ok(cur[c].params))
    /\ UNCHANGED <<cur, handlers, peer, nread, local, daemonState>>

(***************************************************************************)
(* auth.rs: pairing tokens.  create_pairing_token and                      *)
(* validate_pairing_token run their whole body under PAIRING_TOKENS.lock();*)
(* a validation is modelled in the steps call, lock-retain-position and    *)
(* remove-unlock.  The 32 random bytes of a token are modelled as a fresh  *)
(* name.  Time is in whole seconds, as elapsed().as_secs() reads it.       *)
(***************************************************************************)
TOKEN_EXPIRY_SECS == 300

\* threads that call validate_pairing_token
Procs == {"p", "q"}
\* tokens created in one run
MaxTokens == 2
\* validations started in one run
MaxValidations == 3
\* the seconds at which the clock is read
ClockReadings == {0, 299, 300}

TokenName(n) == "token-" \o ToString(n)
\* what callers present for validation: a token that was handed out, or
\* a string that never was (64 random hex digits are not guessed)
Presented == {issued[n].token : n \in 1..Len(issued)} \cup {"not-a-real-token"}

NoCall == [st |-> "idle"]

\* |t| t.created_at.elapsed().as_secs() < TOKEN_EXPIRY_SECS
IsUnexpired(t) == now - t.created_at < TOKEN_EXPIRY_SECS
\* tokens.retain(...)
retain(tokens) == SelectSeq(tokens, IsUnexpired)

\* tokens.iter().position(|t| t.token == token): 0 stands for None
position(tokens, token) ==
    IF \E i \in 1..Len(tokens) : tokens[i].token = token
    THEN CHOOSE i \in 1..Len(tokens) :
            /\ tokens[i].token = token
            /\ \A j \in 1..(i - 1) : tokens[j].token # token
    ELSE 0

\* tokens.remove(pos)
RemoveAt(tokens, pos) ==
    SubSeq(tokens, 1, pos - 1) \o SubSeq(tokens, pos + 1, Len(tokens))

InitAuth ==
    /\ PAIRING_TOKENS = <<>>
    /\ now = 0
    /\ authLock = NoLock
    /\ vcall = [p \in Procs |-> NoCall]
    /\ issued = <<>>
    /\ verdicts = <<>>

\* Instant::now() moves on
Tick ==
    /\ \E t \in ClockReadings : t > now /\ now' = t
    /\ UNCHANGED <<PAIRING_TOKENS, authLock, vcall, issued, verdicts>>

create_pairing_token ==
    /\ authLock = NoLock
    /\ Len(issued) < MaxTokens
    /\ PAIRING_TOKENS' = Append(retain(PAIRING_TOKENS),
                                [token |-> TokenName(Len(issued) + 1), created_at |-> now])
    /\ issued' = Append(issued, [token |-> TokenName(Len(issued) + 1), created_at |-> now])
    /\ UNCHANGED <<now, authLock, vcall, verdicts>>

\* calls of validate_pairing_token started and not yet returned
Validating == {p \in Procs : vcall[p] # NoCall}

\* a thread calls validate_pairing_token(token)
ValidateCall(p, token) ==
    /\ vcall[p] = NoCall
    /\ Len(verdicts) + Cardinality(Validating) < MaxValidations
    /\ vcall' = [vcall EXCEPT ![p] = [st |-> "lock", token |-> token, seen |-> Len(verdicts)]]
    /\ UNCHANGED <<PAIRING_TOKENS, now, authLock, issued, verdicts>>

\* variant: the list is searched without taking the mutex
ValidateLock_unlocked(p) ==
    /\ vcall[p] # NoCall
    /\ vcall[p].st = "lock"
    /\ PAIRING_TOKENS' = retain(PAIRING_TOKENS)
    /\ vcall' = [vcall EXCEPT ![p] =
                   [st |-> "locked", token |-> vcall[p].token, seen |-> vcall[p].seen,
                    pos |-> position(retain(PAIRING_TOKENS), vcall[p].token), at |-> now]]
    /\ UNCHANGED <<now, authLock, issued, verdicts>>

\* PAIRING_TOKENS.lock().unwrap(), retain, position
ValidateLock(p) ==
    /\ vcall[p] # NoCall
    /\ vcall[p].st = "lock"
    /\ authLock = NoLock
    /\ authLock' = p
    /\ PAIRING_TOKENS' = retain(PAIRING_TOKENS)
    /\ vcall' = [vcall EXCEPT ![p] =
                   [st |-> "locked", token |-> vcall[p].token, seen |-> vcall[p].seen,
                    pos |-> position(retain(PAIRING_TOKENS), vcall[p].token), at |-> now]]
    /\ UNCHANGED <<now, issued, verdicts>>

\* tokens.remove(pos) and true, or false; the guard is dropped
ValidateReturn(p) ==
    /\ vcall[p] # NoCall
    /\ vcall[p].st = "locked"
    /\ PAIRING_TOKENS' = IF vcall[p].pos > 0
                         THEN RemoveAt(PAIRING_TOKENS, vcall[p].pos)
                         ELSE PAIRING_TOKENS
    /\ verdicts' = Append(verdicts,
                          [token |-> vcall[p].token, ok |-> vcall[p].pos > 0,
                           at |-> vcall[p].at, seen |-> vcall[p].seen])
    /\ authLock' = NoLock
    /\ vcall' = [vcall EXCEPT ![p] = NoCall]
    /\ UNCHANGED <<now, issued>>

\* threads creating and validating pairing tokens while time passes
NextAuth ==
    \/ Tick /\ UNCHANGED <<core, logs, client>>
    \/ create_pairing_token /\ UNCHANGED <<core, logs, client>>
    \/ \E p \in Procs, token \in Presented :
          ValidateCall(p, token) /\ UNCHANGED <<core, logs, client>>
    \/ \E p \in Procs : ValidateLock(p) /\ UNCHANGED <<core, logs, client>>
    \/ \E p \in Procs : ValidateReturn(p) /\ UNCHANGED <<core, logs, client>>

(***************************************************************************)
(* Frames a peer sends                                                     *)
(***************************************************************************)
Frame(payload) == [len |-> PayloadLen(payload), payload |-> payload]
ReqFrame(id, method, params) == Frame(to_vec(Request(id, method, params)))

Calls ==
    {<<"does/not/exist", JObj(EmptyFields)>>,
     <<FS_READ, JObj([path |-> JStr("t.txt")])>>,
     <<FS_READ, JObj(EmptyFields)>>,
     <<TERM_CREATE, JObj([cols |-> JNum(80), rows |-> JNum(24)])>>,
     <<TERM_DATA, JObj([id |-> JStr("term-1"), data |-> JStr("aGkK")])>>,
     <<TERM_RESIZE, JObj([id |-> JStr("term-1"), cols |-> JNum(120), rows |-> JNum(40)])>>,
     <<TERM_CLOSE, JObj([id |-> JStr("term-1")])>>,
     <<TERM_DATA, JObj(EmptyFields)>>,
     <<LSP_HOVER, JObj(EmptyFields)>>}

\* the calls a peer also sends under a second request id
Recalls ==
    {<<"does/not/exist", JObj(EmptyFields)>>,
     <<FS_READ, JObj([path |-> JStr("t.txt")])>>}

Frames ==
    {ReqFrame(1, call[1], call[2]) : call \in Calls}
    \cup {ReqFrame(2, call[1], call[2]) : call \in Recalls}
    \cup {Frame(to_vec(Notification_new(FS_READ, JObj([path |-> JStr("t.txt")])))),
          Frame(to_vec(Notification_new("terminal/output", Null))),
          Frame(to_vec(Response_ok(1, JBool(TRUE)))),
          Frame(Garbage),
          Frame(JObj(EmptyFields)),
          [len |-> MaxFrameLen + 1, payload |-> Garbage],
          [len |-> MaxFrameLen,
           payload |-> to_vec(Request(1, "does/not/exist", JObj(EmptyFields)))]}

TermNames == {"term-1", "term-2"}
TermFrames ==
    {ReqFrame(1, TERM_CREATE, JObj([cols |-> JNum(80), rows |-> JNum(24)]))}
    \cup {ReqFrame(1, TERM_DATA, JObj([id |-> JStr(t), data |-> JStr("aGkK")])) : t \in TermNames}
    \cup {ReqFrame(1, TERM_RESIZE, JObj([id |-> JStr(t), cols |-> JNum(120), rows |-> JNum(40)])) : t \in TermNames}
    \cup {ReqFrame(1, TERM_CLOSE, JObj([id |-> JStr(t)])) : t \in TermNames}

(***************************************************************************)
(* Specifications                                                          *)
(***************************************************************************)
InitServer ==
    /\ pc = [c \in Conns |-> "idle"]
    /\ cur = [c \in Conns |-> NoMsg]
    /\ resp = [c \in Conns |-> NoMsg]
    /\ hres = [c \in Conns |-> NoResult]
    /\ handlers = [c \in Conns |-> {}]
    /\ peer = [c \in Conns |-> "none"]
    /\ nread = [c \in Conns |-> 0]
    /\ local = [c \in Conns |-> ""]
    /\ terminals = EmptyFields
    /\ next_term_id = 1
    /\ termLock = NoLock
    /\ created = <<>>
    /\ closeExec = {}
    /\ closedLive = {}
    /\ inlog = [c \in Conns |-> <<>>]
    /\ invoked = [c \in Conns |-> <<>>]
    /\ results = [c \in Conns |-> <<>>]
    /\ out = [c \in Conns |-> <<>>]
    /\ rdlog = [c \in Conns |-> <<>>]

InitClientIdle ==
    /\ NEXT_ID = 1
    /\ pending = EmptyFields
    /\ txq = <<>>
    /\ c2s = <<>>
    /\ s2c = <<>>
    /\ cpc = [k \in CallTasks |-> "idle"]
    /\ creq = [k \in CallTasks |-> NoMsg]
    /\ rx = [k \in CallTasks |-> RxNone]
    /\ cret = [k \in CallTasks |-> NoResult]
    /\ readerUp = TRUE
    /\ writerUp = TRUE

Init == InitServer /\ InitClientIdle /\ InitAuth

SpecAuth == Init /\ [][NextAuth]_vars

\* one connection, every kind of frame, with the connection's history
Next ==
    \/ Accept("A") /\ UNCHANGED <<logs, client, auth>>
    \/ BuildServer("A") /\ UNCHANGED <<logs, client, auth>>
    \/ PeerClose("A") /\ UNCHANGED <<logs, client, auth>>
    \/ ReadEof("A") /\ UNCHANGED <<logs, client, auth>>
    \/ \E frame \in Frames :
          nread["A"] < MaxFrames /\ ReadMessage("A", frame) /\ Observe("A", frame) /\ UNCHANGED client
    \/ Dispatch("A") /\ Observe("A", NoMsg) /\ UNCHANGED client
    \/ WriteMessage("A") /\ Observe("A", NoMsg) /\ UNCHANGED client
    \/ FsRead("A") /\ Observe("A", NoMsg) /\ UNCHANGED client
    \/ LspHover("A") /\ Observe("A", NoMsg) /\ UNCHANGED client
    \/ TermCreate("A") /\ Observe("A", NoMsg) /\ UNCHANGED client
    \/ TermCreateInsert("A") /\ Observe("A", NoMsg) /\ UNCHANGED client
    \/ TermData("A") /\ Observe("A", NoMsg) /\ UNCHANGED client
    \/ TermDataRead("A") /\ Observe("A", NoMsg) /\ UNCHANGED client
    \/ TermResize("A") /\ Observe("A", NoMsg) /\ UNCHANGED client
    \/ TermClose("A") /\ Observe("A", NoMsg) /\ UNCHANGED client
    \/ \E id \in DOMAIN terminals : ShellOutput(id) /\ UNCHANGED <<logs, client, auth>>
    \/ \E id \in DOMAIN terminals : ShellExit(id) /\ UNCHANGED <<logs, client, auth>>

Spec == Init /\ [][Next]_vars

\* the daemon with two connections operating the shared terminal map
NextDaemon ==
    \/ \E c \in Conns : Accept(c) /\ UNCHANGED <<logs, client, auth>>
    \/ \E c \in Conns : BuildServer(c) /\ UNCHANGED <<logs, client, auth>>
    \/ \E c \in Conns, frame \in TermFrames :
          /\ nread["A"] + nread["B"] < MaxOps
          /\ ReadMessage(c, frame)
          /\ UNCHANGED <<logs, client, auth>>
    \/ \E c \in Conns : Dispatch(c) /\ UNCHANGED <<logs, client, auth>>
    \/ \E c \in Conns : WriteMessage(c) /\ UNCHANGED <<logs, client, auth>>
    \/ \E c \in Conns : TermCreate(c) /\ UNCHANGED <<logs, client, auth>>
    \/ \E c \in Conns : TermCreateInsert(c) /\ UNCHANGED <<logs, client, auth>>
    \/ \E c \in Conns : TermData(c) /\ UNCHANGED <<logs, client, auth>>
    \/ \E c \in Conns : TermDataRead(c) /\ UNCHANGED <<logs, client, auth>>
    \/ \E c \in Conns : TermResize(c) /\ UNCHANGED <<logs, client, auth>>
    \/ \E c \in Conns : TermClose(c) /\ UNCHANGED <<logs, client, auth>>
    \/ \E id \in DOMAIN terminals : ShellOutput(id) /\ UNCHANGED <<logs, client, auth>>
    \/ \E id \in DOMAIN terminals : ShellExit(id) /\ UNCHANGED <<logs, client, auth>>

SpecDaemon == Init /\ [][NextDaemon]_vars

\* what the task of connection c does on its own once a request is read:
\* dispatch, the handler's steps, the write of the response
ServeStep(c) ==
    /\ \/ BuildServer(c)
       \/ Dispatch(c) \/ WriteMessage(c)
       \/ TermCreate(c) \/ TermCreateInsert(c)
       \/ TermData(c) \/ TermDataRead(c)
       \/ TermResize(c) \/ TermClose(c)
    /\ UNCHANGED <<logs, client, auth>>

\* the daemon whose connection tasks are always scheduled again; the peers
\* and the shells owe nothing
SpecDaemonLive ==
    /\ Init
    /\ [][NextDaemon]_vars
    /\ \A c \in Conns : WF_vars(ServeStep(c))

\* frames the two connections read in all in the runs of SpecConns
MaxConnOps == 4

\* connection A creates sessions, then fails or closes
FramesA ==
    {ReqFrame(1, TERM_CREATE, JObj([cols |-> JNum(80), rows |-> JNum(24)])),
     ReqFrame(6, TERM_CREATE, JObj(EmptyFields)),
     Frame(Garbage),
     [len |-> MaxFrameLen + 1, payload |-> Garbage]}

\* connection B stays open and works on the sessions by identifier
FramesB ==
    {ReqFrame(2, TERM_DATA, JObj([id |-> JStr("term-1"), data |-> JStr("aGkK")])),
     ReqFrame(3, TERM_RESIZE, JObj([id |-> JStr("term-1"), cols |-> JNum(120), rows |-> JNum(40)])),
     ReqFrame(4, TERM_CLOSE, JObj([id |-> JStr("term-1")])),
     ReqFrame(5, TERM_DATA, JObj([id |-> JStr("term-1"), data |-> JStr("a+b/")]))}

ConnFrames(c) == IF c = "A" THEN FramesA ELSE FramesB

\* the daemon with two connections, one of which fails or closes, with the
\* history of each
NextConns ==
    \/ \E c \in Conns : Accept(c) /\ UNCHANGED <<logs, client, auth>>
    \/ \E c \in Conns : BuildServer(c) /\ UNCHANGED <<logs, client, auth>>
    \/ PeerClose("A") /\ UNCHANGED <<logs, client, auth>>
    \/ ReadEof("A") /\ UNCHANGED <<logs, client, auth>>
    \/ \E c \in Conns : \E frame \in ConnFrames(c) :
          /\ nread["A"] + nread["B"] < MaxConnOps
          /\ ReadMessage(c, frame)
          /\ Observe(c, frame)
          /\ UNCHANGED client
    \/ \E c \in Conns : Dispatch(c) /\ Observe(c, NoMsg) /\ UNCHANGED client
    \/ \E c \in Conns : WriteMessage(c) /\ Observe(c, NoMsg) /\ UNCHANGED client
    \/ TermCreate("A") /\ Observe("A", NoMsg) /\ UNCHANGED client
    \/ TermCreateInsert("A") /\ Observe("A", NoMsg) /\ UNCHANGED client
    \/ TermData("B") /\ Observe("B", NoMsg) /\ UNCHANGED client
    \/ TermDataRead("B") /\ Observe("B", NoMsg) /\ UNCHANGED client
    \/ TermResize("B") /\ Observe("B", NoMsg) /\ UNCHANGED client
    \/ TermClose("B") /\ Observe("B", NoMsg) /\ UNCHANGED client
    \/ \E id \in DOMAIN terminals : ShellOutput(id) /\ UNCHANGED <<logs, client, auth>>
    \/ \E id \in DOMAIN terminals : ShellExit(id) /\ UNCHANGED <<logs, client, auth>>

SpecConns == Init /\ [][NextConns]_vars

\* a step of the dispatcher task of connection c in the runs of SpecConns:
\* the failed read of a closed stream, the dispatch, the handler, the write
ConnStep(c) ==
    \/ (ReadEof(c) \/ BuildServer(c)) /\ UNCHANGED <<logs, client, auth>>
    \/ /\ \/ Dispatch(c) \/ WriteMessage(c)
          \/ TermCreate(c) \/ TermCreateInsert(c)
          \/ TermData(c) \/ TermDataRead(c)
          \/ TermResize(c) \/ TermClose(c)
       /\ Observe(c, NoMsg)
       /\ UNCHANGED client

\* SpecConns with connection tasks that are always scheduled again; the
\* peers and the shells owe nothing
SpecConnsLive ==
    /\ Init
    /\ [][NextConns]_vars
    /\ \A c \in Conns : WF_vars(ConnStep(c))

\* tests::client_server_call: one RpcClient over a duplex stream to an
\* RpcServer that registers echo; the calls run concurrently
ClientCalls ==
    {<<"echo", Null>>,
     <<"echo", JObj([hello |-> JStr("world")])>>,
     <<"echo", JArr(<<JNum(1)>>)>>,
     <<"nonexistent", JObj(EmptyFields)>>}

InitClient ==
    /\ InitClientIdle
    /\ InitAuth
    /\ pc = [c \in Conns |-> IF c = "A" THEN "read" ELSE "idle"]
    /\ cur = [c \in Conns |-> NoMsg]
    /\ resp = [c \in Conns |-> NoMsg]
    /\ hres = [c \in Conns |-> NoResult]
    /\ handlers = [c \in Conns |-> IF c = "A" THEN {"echo"} ELSE {}]
    /\ peer = [c \in Conns |-> IF c = "A" THEN "open" ELSE "none"]
    /\ nread = [c \in Conns |-> 0]
    /\ local = [c \in Conns |-> ""]
    /\ terminals = EmptyFields
    /\ next_term_id = 1
    /\ termLock = NoLock
    /\ created = <<>>
    /\ closeExec = {}
    /\ closedLive = {}
    /\ inlog = [c \in Conns |-> <<>>]
    /\ invoked = [c \in Conns |-> <<>>]
    /\ results = [c \in Conns |-> <<>>]
    /\ out = [c \in Conns |-> <<>>]
    /\ rdlog = [c \in Conns |-> <<>>]

serverSide == <<core, logs, auth>>

NextClient ==
    \/ \E k \in CallTasks, call \in ClientCalls :
          CallNew(k, call[1], call[2]) /\ UNCHANGED serverSide
    \/ \E k \in CallTasks : CallRegister(k) /\ UNCHANGED serverSide
    \/ \E k \in CallTasks : CallSend(k) /\ UNCHANGED serverSide
    \/ \E k \in CallTasks : CallAwait(k) /\ UNCHANGED serverSide
    \/ WriterStep /\ UNCHANGED serverSide
    \/ ReaderStep /\ UNCHANGED serverSide
    \/ /\ c2s # <<>>
       /\ ReadMessage("A", Head(c2s))
       /\ c2s' = Tail(c2s)
       /\ Observe("A", Head(c2s))
       /\ UNCHANGED <<NEXT_ID, pending, txq, s2c, cpc, creq, rx, cret, readerUp, writerUp>>
    \/ Dispatch("A") /\ Observe("A", NoMsg) /\ UNCHANGED client
    \/ Echo("A") /\ Observe("A", NoMsg) /\ UNCHANGED client
    \/ /\ WriteMessage("A")
       /\ Observe("A", NoMsg)
       /\ s2c' = IF peer["A"] = "open" THEN Append(s2c, write_message(resp["A"])) ELSE s2c
       /\ UNCHANGED <<NEXT_ID, pending, txq, c2s, cpc, creq, rx, cret, readerUp, writerUp>>

SpecClient == InitClient /\ [][NextClient]_vars

\* the reader task at the end of a closed stream: read_message fails, the
\* loop breaks and the task ends; the pending map lives on in the client
ReaderEof ==
    /\ readerUp
    /\ s2c = <<>>
    /\ peer["A"] = "closed"
    /\ readerUp' = FALSE
    /\ UNCHANGED <<NEXT_ID, pending, creq, rx, cret, cpc, txq, c2s, s2c, writerUp>>

\* the client and the echo server over a stream that may break
NextClientConn ==
    \/ NextClient
    \/ PeerClose("A") /\ UNCHANGED <<logs, client, auth>>
    \/ ReadEof("A") /\ UNCHANGED <<logs, client, auth>>
    \/ ReaderEof /\ UNCHANGED serverSide

SpecClientConn == InitClient /\ [][NextClientConn]_vars

\* steps of the tasks tokio keeps scheduling: a call past Request::new,
\* the writer task, the reader task, the server's dispatcher
CallStep(k) ==
    (CallRegister(k) \/ CallSend(k) \/ CallAwait(k)) /\ UNCHANGED serverSide

WriterTaskStep == WriterStep /\ UNCHANGED serverSide

ReaderTaskStep == (ReaderStep \/ ReaderEof) /\ UNCHANGED serverSide

ServerTaskStep ==
    \/ /\ c2s # <<>>
       /\ ReadMessage("A", Head(c2s))
       /\ c2s' = Tail(c2s)
       /\ Observe("A", Head(c2s))
       /\ UNCHANGED <<NEXT_ID, pending, txq, s2c, cpc, creq, rx, cret, readerUp, writerUp>>
    \/ ReadEof("A") /\ UNCHANGED <<logs, client, auth>>
    \/ (Dispatch("A") \/ Echo("A")) /\ Observe("A", NoMsg) /\ UNCHANGED client
    \/ /\ WriteMessage("A")
       /\ Observe("A", NoMsg)
       /\ s2c' = IF peer["A"] = "open" THEN Append(s2c, write_message(resp["A"])) ELSE s2c
       /\ UNCHANGED <<NEXT_ID, pending, txq, c2s, cpc, creq, rx, cret, readerUp, writerUp>>

\* SpecClientConn with every task scheduled again; the stream and the
\* callers of new calls owe nothing
SpecClientLive ==
    /\ InitClient
    /\ [][NextClientConn]_vars
    /\ \A k \in CallTasks : WF_vars(CallStep(k))
    /\ WF_vars(WriterTaskStep)
    /\ WF_vars(ReaderTaskStep)
    /\ WF_vars(ServerTaskStep)

(***************************************************************************)
(* The writer task, write by write.  In the runs of SpecWriter the stream  *)
(* c2s is the sequence of the writer's write_all calls, a length or a      *)
(* payload each, instead of whole frames.                                  *)
(***************************************************************************)
LenChunk(n) == [chunk |-> "len", len |-> n]
PayloadChunk(p) == [chunk |-> "payload", payload |-> p]

\* the writer task is between write_all(&len) and write_all(&payload)
MidFrame == c2s # <<>> /\ c2s[Len(c2s)].chunk = "len"

\* RpcClient::notify: Notification::new, to_vec, self.tx.send
Notify(k, method, params) ==
    /\ cpc[k] = "idle"
    /\ creq' = [creq EXCEPT ![k] = Notification_new(method, params)]
    /\ IF writerUp
       THEN /\ Len(txq) < TxCapacity
            /\ txq' = Append(txq, to_vec(Notification_new(method, params)))
            /\ cret' = [cret EXCEPT ![k] = Ok(Null)]
       ELSE /\ txq' = txq
            /\ cret' = [cret EXCEPT ![k] = Err("transport closed")]
    /\ cpc' = [cpc EXCEPT ![k] = "done"]
    /\ UNCHANGED <<NEXT_ID, pending, rx, c2s, s2c, readerUp, writerUp>>

\* writer task: writer.write_all(&len) for the payload it has received
WriterLen ==
    /\ writerUp
    /\ txq # <<>>
    /\ ~MidFrame
    /\ IF peer["A"] = "open"
       THEN /\ c2s' = Append(c2s, LenChunk(PayloadLen(Head(txq))))
            /\ UNCHANGED <<txq, writerUp>>
       ELSE /\ txq' = Tail(txq)
            /\ writerUp' = FALSE
            /\ c2s' = c2s
    /\ UNCHANGED <<NEXT_ID, pending, creq, rx, cret, cpc, s2c, readerUp>>

\* variant: the payload written is the one queued last
WriterPayload_last ==
    /\ writerUp
    /\ MidFrame
    /\ txq' = SubSeq(txq, 1, Len(txq) - 1)
    /\ IF peer["A"] = "open"
       THEN /\ c2s' = Append(c2s, PayloadChunk(txq[Len(txq)]))
            /\ writerUp' = writerUp
       ELSE /\ c2s' = c2s
            /\ writerUp' = FALSE
    /\ UNCHANGED <<NEXT_ID, pending, creq, rx, cret, cpc, s2c, readerUp>>

\* writer task: writer.write_all(&payload), flush
WriterPayload ==
    /\ writerUp
    /\ MidFrame
    /\ txq' = Tail(txq)
    /\ IF peer["A"] = "open"
       THEN /\ c2s' = Append(c2s, PayloadChunk(Head(txq)))
            /\ writerUp' = writerUp
       ELSE /\ c2s' = c2s
            /\ writerUp' = FALSE
    /\ UNCHANGED <<NEXT_ID, pending, creq, rx, cret, cpc, s2c, readerUp>>

\* what the callers of notify send
ClientNotes ==
    {<<"log", Null>>, <<"log", JObj([line |-> JStr("hello")])>>}

\* concurrent calls and notifications over one writer task
NextWriter ==
    \/ \E k \in CallTasks, call \in ClientCalls :
          CallNew(k, call[1], call[2]) /\ UNCHANGED serverSide
    \/ \E k \in CallTasks : CallRegister(k) /\ UNCHANGED serverSide
    \/ \E k \in CallTasks : CallSend(k) /\ UNCHANGED serverSide
    \/ \E k \in CallTasks, note \in ClientNotes :
          Notify(k, note[1], note[2]) /\ UNCHANGED serverSide
    \/ WriterLen /\ UNCHANGED serverSide
    \/ WriterPayload /\ UNCHANGED serverSide
    \/ PeerClose("A") /\ UNCHANGED <<logs, client, auth>>

SpecWriter == InitClient /\ [][NextWriter]_vars

\* payloads a peer may put on the wire: the three envelopes, a request
\* whose id is a string or negative, one without the jsonrpc member, an id
\* of the wrong type alone, and bytes that are not JSON
WirePayloads ==
    {to_vec(Request(1, "echo", JObj([hello |-> JStr("world")]))),
     to_vec(Notification_new("echo", Null)),
     to_vec(Response_ok(1, JBool(TRUE))),
     JObj([jsonrpc |-> JStr("2.0"), id |-> JStr("abc"), method |-> JStr("echo")]),
     JObj([jsonrpc |-> JStr("2.0"), id |-> JNum(-1), method |-> JStr("echo")]),
     JObj([id |-> JNum(1), method |-> JStr("echo")]),
     JObj([jsonrpc |-> JStr("2.0"), id |-> JStr("abc")]),
     Garbage}

\* frames in flight to the dispatcher in the runs of SpecWire
MaxWire == 2

\* the peer writes a frame to the stream
PeerWrite(payload) ==
    /\ Len(c2s) < MaxWire
    /\ c2s' = Append(c2s, Frame(payload))
    /\ UNCHANGED <<NEXT_ID, pending, txq, s2c, cpc, creq, rx, cret, readerUp, writerUp>>

\* an echo server that reads whatever a peer writes
NextWire ==
    \/ \E payload \in WirePayloads :
          nread["A"] + Len(c2s) < MaxFrames /\ PeerWrite(payload) /\ UNCHANGED serverSide
    \/ /\ c2s # <<>>
       /\ ReadMessage("A", Head(c2s))
       /\ c2s' = Tail(c2s)
       /\ Observe("A", Head(c2s))
       /\ UNCHANGED <<NEXT_ID, pending, txq, s2c, cpc, creq, rx, cret, readerUp, writerUp>>
    \/ Dispatch("A") /\ Observe("A", NoMsg) /\ UNCHANGED client
    \/ Echo("A") /\ Observe("A", NoMsg) /\ UNCHANGED client
    \/ /\ WriteMessage("A")
       /\ Observe("A", NoMsg)
       /\ s2c' = Append(s2c, write_message(resp["A"]))
       /\ UNCHANGED <<NEXT_ID, pending, txq, c2s, cpc, creq, rx, cret, readerUp, writerUp>>

SpecWire == InitClient /\ [][NextWire]_vars

(***************************************************************************)
(* The dispatcher's contract, on the history of connection A               *)
(***************************************************************************)
IsRequestMsg(m) == m.kind = "Request"
\* the requests read on c, in arrival order
Requests(c) == SelectSeq(inlog[c], IsRequestMsg)
\* a request has been read and its response is not written yet
InFlight(c) == pc[c] \notin {"idle", "accepted", "read", "returned_ok", "returned_err"}
\* the write of a response failed: the stream did not stay writable
WriteFailed(c) == pc[c] = "returned_err"

\* C1: every well-formed request read on a connection whose stream stays
\* writable gets exactly one response, and that response carries the
\* request's id: the k-th frame written answers the k-th request read,
\* nothing else is written, and once the dispatcher is back at its read
\* every request read has its response.
C1_OneResponsePerRequest ==
    \A c \in Conns :
        /\ Len(out[c]) <= Len(Requests(c))
        /\ \A i \in 1..Len(out[c]) :
              /\ IsU64Field(out[c][i].payload, "id")
              /\ out[c][i].payload.f["id"].n = Requests(c)[i].id
              /\ ~HasField(out[c][i].payload, "method")
        /\ ~WriteFailed(c) =>
              Len(out[c]) = Len(Requests(c)) - (IF InFlight(c) THEN 1 ELSE 0)

C1_Witness ==
    /\ pc["A"] = "read"
    /\ Len(out["A"]) = 3
    /\ out["A"][1].payload.f["id"].n # out["A"][2].payload.f["id"].n
    /\ out["A"][2].payload.f["id"].n = out["A"][3].payload.f["id"].n

\* C2: responses leave in the arrival order of their requests: when the
\* handler of a request is invoked every earlier request's response is
\* already written, and each response written is the one of the oldest
\* unanswered request, no later request having been read.
C2_ResponsesInArrivalOrder ==
    [][\A c \in Conns :
          /\ Len(invoked'[c]) > Len(invoked[c]) =>
                /\ Len(out[c]) = Len(Requests(c)) - 1
                /\ invoked'[c][Len(invoked'[c])].method = Requests(c)[Len(Requests(c))].method
          /\ Len(out'[c]) > Len(out[c]) =>
                /\ Len(out'[c]) = Len(Requests(c))
                /\ out'[c][Len(out'[c])].payload.f["id"].n = Requests(c)[Len(out'[c])].id
          /\ Len(inlog'[c]) > Len(inlog[c]) => Len(out[c]) = Len(Requests(c))
      ]_vars

C2_Witness ==
    /\ Len(invoked["A"]) = 3
    /\ Len(out["A"]) = 2
    /\ InFlight("A")

\* C3: reading a Notification writes no frame and invokes no handler,
\* whether or not its method is registered, and the dispatcher goes on to
\* read the next frame.
C3_NotificationNeverAnswered ==
    [][\A c \in Conns :
          (/\ Len(inlog'[c]) > Len(inlog[c])
           /\ inlog'[c][Len(inlog'[c])].kind = "Notification")
          => /\ out' = out
             /\ invoked' = invoked
             /\ pc'[c] = "read"
             /\ resp' = resp
      ]_vars

C3_Witness ==
    /\ Len(inlog["A"]) = 3
    /\ inlog["A"][1].kind = "Notification" /\ inlog["A"][1].method \in handlers["A"]
    /\ inlog["A"][2].kind = "Notification" /\ inlog["A"][2].method \notin handlers["A"]
    /\ inlog["A"][3].kind = "Request"
    /\ Len(out["A"]) = 1

\* C4: a request for an unregistered method is answered with error code
\* -32601 and message "unknown method: <name>", no handler is invoked for
\* it and the daemon's state is left as it was.
C4_UnknownMethod ==
    [][\A c \in Conns :
          /\ (pc[c] = "dispatch" /\ pc'[c] # "dispatch" /\ cur[c].method \notin handlers[c]) =>
                /\ invoked' = invoked
                /\ daemonState' = daemonState
                /\ pc'[c] = "write"
          /\ (Len(out'[c]) > Len(out[c])
                /\ Requests(c)[Len(out'[c])].method \notin handlers[c]) =>
                LET req == Requests(c)[Len(out'[c])]
                    sent == out'[c][Len(out'[c])].payload
                IN  /\ DOMAIN sent.f = {"jsonrpc", "id", "error"}
                    /\ sent.f["id"] = JNum(req.id)
                    /\ sent.f["error"] =
                          JObj([code |-> JNum(-32601),
                                message |-> JStr("unknown method: " \o req.method)])
                    /\ req.method # ""
      ]_vars

C4_Witness ==
    /\ Len(out["A"]) = 2
    /\ Requests("A")[2].method = "does/not/exist"
    /\ HasField(out["A"][2].payload, "error")
    /\ Len(invoked["A"]) = 1

\* C5: a request for a registered method invokes that method's handler
\* once, with the request's params; what the handler returned is answered
\* as result on success, and as error code -32603 with the failure's
\* text as message on failure, under the request's id.
RegisteredRequest(c, m) == m.kind = "Request" /\ m.method \in handlers[c]
IsRegisteredA(m) == RegisteredRequest("A", m)
IsHandlerResult(r) == "ok" \in DOMAIN r

C5_RegisteredMethod ==
    LET c == "A"
        reg == SelectSeq(inlog[c], IsRegisteredA)
        dispatched == Len(reg) - (IF pc[c] = "dispatch" /\ cur[c].method \in handlers[c]
                                  THEN 1 ELSE 0)
    IN  /\ Len(invoked[c]) = dispatched
        /\ \A i \in 1..Len(invoked[c]) :
              invoked[c][i] = [method |-> reg[i].method, params |-> reg[i].params]
        /\ \A i \in 1..Len(out[c]) :
              Requests(c)[i].method \in handlers[c] =>
                 LET req == Requests(c)[i]
                     res == results[c][i]
                     sent == out[c][i].payload
                 IN  /\ IsHandlerResult(res)
                     /\ sent.f["id"] = JNum(req.id)
                     /\ IF res.ok
                        THEN /\ DOMAIN sent.f = {"jsonrpc", "id", "result"}
                             /\ sent.f["result"] = res.v
                        ELSE /\ DOMAIN sent.f = {"jsonrpc", "id", "error"}
                             /\ sent.f["error"] =
                                   JObj([code |-> JNum(-32603), message |-> JStr(res.msg)])

C5_Witness ==
    /\ Len(out["A"]) = 3
    /\ results["A"][1] = Err("No such file or directory (os error 2)")
    /\ results["A"][2] = Ok(JObj([content |-> JStr("hello")]))
    /\ results["A"][3] = Err("unknown terminal: term-1")
    /\ Requests("A")[1].id = 2

(***************************************************************************)
(* RpcClient: correlation of responses with calls                          *)
(***************************************************************************)
\* what the echo server of SpecClient answers to req
AnswerTo(req, r) ==
    IF req.method = "echo"
    THEN /\ r.error = None
         /\ req.params # Null => r.result = Some(req.params)
    ELSE /\ r.result = None
         /\ r.error = Some(RpcError(METHOD_NOT_FOUND, "unknown method: " \o req.method))

\* C6: with several calls in flight at once on one client, under every
\* interleaving of the calls, the writer, the server and the reader, a call
\* that has returned has returned a response, the id of that response is
\* the id of the call's own request, and its content is the server's answer
\* to that request: no call gets the response of another call.
C6_ClientCorrelation ==
    \A k \in CallTasks :
        cpc[k] = "done" =>
            /\ cret[k].ok
            /\ cret[k].v.id = creq[k].id
            /\ AnswerTo(creq[k], cret[k].v)

\* two calls with different requests have both returned, and the server
\* read the request with the larger id first
C6_Witness ==
    /\ cpc[1] = "done" /\ cpc[2] = "done"
    /\ creq[1].params # creq[2].params
    /\ creq[1].method # creq[2].method
    /\ Len(Requests("A")) >= 2
    /\ Requests("A")[1].id > Requests("A")[2].id

\* C7: every response a call returns, decoded from the wire, has exactly
\* one of result and error present, whatever JSON value the handler
\* returned (null included) and whatever error it returned.
C7_ExactlyOneOfResultError ==
    \A k \in CallTasks :
        (cpc[k] = "done" /\ cret[k].ok) =>
            (cret[k].v.result # None) # (cret[k].v.error # None)

(***************************************************************************)
(* The daemon's terminal map                                               *)
(***************************************************************************)
Range(seq) == {seq[i] : i \in 1..Len(seq)}
\* identifiers a terminal/create holds between minting and inserting
InHand == {local[c] : c \in Conns} \ {""}
\* every identifier next_terminal_id has returned
Minted == Range(created) \cup InHand

\* C8 as stated: an identifier is in the terminal map exactly when the
\* terminal/create that minted it has succeeded and no terminal/close for
\* that identifier has executed, at any time.
C8_InMapIffCreatedNeverClosed ==
    DOMAIN terminals = Range(created) \ closeExec

\* C8: an identifier is in the terminal map exactly when the
\* terminal/create that minted it has inserted its session and no
\* terminal/close for that identifier has executed since that insertion.
C8_InMapIffCreatedNotClosedSince ==
    DOMAIN terminals = Range(created) \ closedLive

\* one session is live, one was closed after its creation, and a close
\* also ran for an identifier before its session was inserted
C8_Witness ==
    /\ Len(created) = 2
    /\ closedLive = {"term-1"}
    /\ DOMAIN terminals = {"term-2"}
    /\ "term-2" \in closeExec

\* C9: terminal identifiers are term-<n>; the counter starts at 1 and
\* advances by one per mint, so the identifiers minted so far are exactly
\* term-1 .. term-(counter - 1), each minted once; an identifier whose
\* session was closed is not in the map again and is not minted again.
C9_TerminalIdsUnique ==
    /\ next_term_id >= 1
    /\ Minted = {TermName(n) : n \in 1..(next_term_id - 1)}
    /\ Len(created) + Cardinality({c \in Conns : local[c] # ""}) = next_term_id - 1
    /\ Cardinality(Minted) = next_term_id - 1
    /\ closedLive \subseteq Range(created)
    /\ closedLive \cap DOMAIN terminals = {}
    /\ closedLive \cap InHand = {}

\* term-1 was created and closed, term-2 was created after that close
C9_Witness ==
    /\ created = <<"term-1", "term-2">>
    /\ closedLive = {"term-1"}
    /\ DOMAIN terminals = {"term-2"}
    /\ next_term_id = 3

\* the handler of c is terminal/data or terminal/resize, its parameters
\* are well formed, and it is about to look up its identifier
AtLookup(c) ==
    \/ pc[c] = TERM_DATA /\ IsTermDataParams(cur[c].params)
                         /\ IsBase64Url(cur[c].params.f["data"].s)
    \/ pc[c] = TERM_RESIZE /\ IsTermResizeParams(cur[c].params)

\* C10: terminal/data or terminal/resize on an identifier that was never
\* minted, or whose session has been closed, fails with the handler error
\* unknown terminal: <id>, answered with code -32603, and leaves the
\* terminal map and every session in it as they were.
C10_UnknownTerminal ==
    [][\A c \in Conns :
          (/\ AtLookup(c)
           /\ pc'[c] # pc[c]
           /\ \/ cur[c].params.f["id"].s \notin Minted
              \/ cur[c].params.f["id"].s \in closedLive) =>
                /\ hres'[c] = Err("unknown terminal: " \o cur[c].params.f["id"].s)
                /\ resp'[c] = Response_err(cur[c].id, INTERNAL_ERROR,
                                "unknown terminal: " \o cur[c].params.f["id"].s)
                /\ pc'[c] = "write"
                /\ terminals' = terminals]_vars

\* on A a terminal/data for the closed term-1 has just failed, on B a
\* terminal/resize for the never minted term-2 has just failed, and the
\* map is empty
C10_Witness ==
    /\ closedLive = {"term-1"}
    /\ next_term_id = 2
    /\ pc["A"] = "write" /\ cur["A"].method = TERM_DATA
    /\ hres["A"] = Err("unknown terminal: term-1")
    /\ pc["B"] = "write" /\ cur["B"].method = TERM_RESIZE
    /\ hres["B"] = Err("unknown terminal: term-2")
    /\ terminals = EmptyFields

(***************************************************************************)
(* terminal/close                                                          *)
(***************************************************************************)
\* the terminal/close handler of c is about to run with a string id
AtClose(c) == pc[c] = TERM_CLOSE /\ IsStringField(cur[c].params, "id")

\* C11: terminal/close with a string id returns {ok: true} whether or not
\* the id is in the terminal map; it leaves the id out of the map, the
\* other sessions as they were and the id counter unchanged; a close of an
\* id the map does not hold (the second of two closes in sequence) changes
\* nothing in the map.
C11_CloseIdempotent ==
    [][\A c \in Conns :
          (AtClose(c) /\ pc'[c] # pc[c]) =>
              LET id == cur[c].params.f["id"].s IN
                /\ hres'[c] = Ok(JObj([ok |-> JBool(TRUE)]))
                /\ resp'[c] = Response_ok(cur[c].id, JObj([ok |-> JBool(TRUE)]))
                /\ next_term_id' = next_term_id
                /\ terminals' = Remove(terminals, id)
                /\ id \notin DOMAIN terminals => terminals' = terminals]_vars

\* term-1 was created, both connections have closed it one after the
\* other, and both closes returned {ok: true}
C11_Witness ==
    /\ created = <<"term-1">>
    /\ closedLive = {"term-1"}
    /\ \A c \in Conns :
          /\ pc[c] = "write"
          /\ cur[c].method = TERM_CLOSE
          /\ cur[c].params.f["id"].s = "term-1"
          /\ hres[c] = Ok(JObj([ok |-> JBool(TRUE)]))
    /\ terminals = EmptyFields
    /\ next_term_id = 2

(***************************************************************************)
(* Connections come and go, the daemon's state stays                       *)
(***************************************************************************)
Ended(c) == pc[c] \in {"returned_ok", "returned_err"}
\* the response frame that answers a request with result
OkFrame(id, result) == write_message(Response_ok(id, result))

\* C12: the step in which a connection closes or its dispatcher returns,
\* with or without an error, leaves the terminal map and the id counter as
\* they were; a session leaves the map only by terminal/close; and once a
\* connection has ended, terminal/data and terminal/resize from another
\* connection still find every session of the map and terminal/close
\* still removes it.
C12_SessionsOutliveConnection ==
    [][/\ \A c \in Conns :
            (peer'[c] # peer[c] \/ (Ended(c)' /\ ~Ended(c))) =>
                /\ terminals' = terminals
                /\ next_term_id' = next_term_id
       /\ DOMAIN terminals' = Range(created') \ closedLive'
       /\ \A c \in Conns :
            ((\E d \in Conns \ {c} : Ended(d)) /\ pc'[c] # pc[c]) =>
                /\ (AtLookup(c) /\ cur[c].params.f["id"].s \in DOMAIN terminals) =>
                      hres'[c] # UnknownTerminal(cur[c].params.f["id"].s)
                /\ AtClose(c) =>
                      /\ cur[c].params.f["id"].s \notin DOMAIN terminals'
                      /\ hres'[c] = Ok(JObj([ok |-> JBool(TRUE)]))]_vars

\* A created term-1 and its peer closed; after that B resized term-1,
\* wrote to it and closed it, each with success
C12_Witness ==
    /\ pc["A"] = "returned_ok"
    /\ peer["A"] = "closed"
    /\ out["A"] = <<OkFrame(1, JObj([id |-> JStr("term-1")]))>>
    /\ nread["A"] = 1
    /\ out["B"] = <<OkFrame(3, JObj([ok |-> JBool(TRUE)])),
                    OkFrame(2, JObj([output |-> JStr(base64_url_encode("hi\n"))])),
                    OkFrame(4, JObj([ok |-> JBool(TRUE)]))>>
    /\ created = <<"term-1">>
    /\ closedLive = {"term-1"}
    /\ next_term_id = 2

\* the last frame c read was refused: too large, or not a message
FramingFailed(c) ==
    /\ Len(inlog[c]) > 0
    /\ inlog[c][Len(inlog[c])].kind = "Err"

\* C13: the step in which a connection reads a frame it refuses, and its
\* dispatcher ends, changes nothing of any other connection (its position,
\* its request in flight, its response, its registry, its stream, its
\* output) and nothing of the terminal map and the id counter; and a
\* connection next to a failed one still has every request it read
\* answered, in order, once it is back at its read.
C13_FramingFailureIsolated ==
    [][/\ \A c \in Conns :
            (nread'[c] # nread[c] /\ FramingFailed(c)') =>
                /\ Ended(c)'
                /\ daemonState' = daemonState
                /\ \A d \in Conns \ {c} :
                      /\ pc'[d] = pc[d] /\ cur'[d] = cur[d] /\ resp'[d] = resp[d]
                      /\ hres'[d] = hres[d] /\ handlers'[d] = handlers[d]
                      /\ peer'[d] = peer[d] /\ out'[d] = out[d]
       /\ \A d \in Conns :
            ((\E c \in Conns \ {d} : FramingFailed(c)') /\ pc'[d] = "read") =>
                /\ Len(out'[d]) = Len(Requests(d)')
                /\ \A i \in 1..Len(out'[d]) :
                      out'[d][i].payload.f["id"].n = Requests(d)'[i].id]_vars

\* A created term-1 and then read an oversized frame; B has had two
\* requests answered and is reading on
C13_Witness ==
    /\ Len(inlog["A"]) = 2
    /\ inlog["A"][2] = ReadErr("message too large")
    /\ pc["A"] = "returned_ok"
    /\ peer["A"] = "open"
    /\ Len(out["A"]) = 1
    /\ pc["B"] = "read"
    /\ Len(out["B"]) = 2
    /\ out["B"][1] = OkFrame(3, JObj([ok |-> JBool(TRUE)]))
    /\ out["B"][2] = OkFrame(2, JObj([output |-> JStr(base64_url_encode("hi\n"))]))
    /\ DOMAIN terminals = {"term-1"}

(***************************************************************************)
(* Framing failures and error responses on one connection                  *)
(***************************************************************************)
\* C14: a frame whose length prefix exceeds 16 MiB makes read_message fail
\* with "message too large" after the 4 bytes of the prefix and before any
\* byte of the payload, and the dispatcher ends the connection on it: it
\* is the last frame read; a frame of 16 MiB or less is not refused for
\* its size and is read whole.
C14_FrameCap ==
    \A c \in Conns :
        /\ Len(rdlog[c]) = Len(inlog[c])
        /\ \A i \in 1..Len(rdlog[c]) :
              IF rdlog[c][i].len > MaxFrameLen
              THEN /\ inlog[c][i] = ReadErr("message too large")
                   /\ rdlog[c][i].taken = HeaderLen
                   /\ i = Len(inlog[c])
                   /\ pc[c] = "returned_ok"
              ELSE /\ inlog[c][i] # ReadErr("message too large")
                   /\ rdlog[c][i].taken = HeaderLen + rdlog[c][i].len

\* a request in a frame of exactly 16 MiB was read and answered, then a
\* frame of 16 MiB + 1 ended the connection
C14_Witness ==
    /\ Len(rdlog["A"]) = 2
    /\ rdlog["A"][1].len = MaxFrameLen
    /\ inlog["A"][1].kind = "Request"
    /\ Len(out["A"]) = 1
    /\ rdlog["A"][2] = [len |-> MaxFrameLen + 1, taken |-> HeaderLen]
    /\ inlog["A"][2] = ReadErr("message too large")
    /\ pc["A"] = "returned_ok"

\* the error code of a written frame, 0 for a frame without error
ErrorCode(frame) ==
    IF HasField(frame.payload, "error") THEN frame.payload.f["error"].f["code"].n ELSE 0

\* C15: a frame that is oversized, is not JSON or fits no envelope ends
\* the connection and is not answered: it is the last frame read, the
\* dispatcher has returned, the frames written are the responses to the
\* requests read before it and none of them carries -32700.
C15_FramingFailureSilent ==
    \A c \in Conns :
        /\ \A i \in 1..Len(inlog[c]) :
              inlog[c][i].kind = "Err" =>
                  /\ i = Len(inlog[c])
                  /\ pc[c] = "returned_ok"
                  /\ Len(out[c]) = Len(Requests(c))
        /\ \A j \in 1..Len(out[c]) :
              /\ j <= Len(Requests(c))
              /\ out[c][j].payload.f["id"].n = Requests(c)[j].id
              /\ ErrorCode(out[c][j]) # PARSE_ERROR

\* two requests were answered, then the JSON document {} ended the
\* connection without a third frame written
C15_Witness ==
    /\ Len(inlog["A"]) = 3
    /\ inlog["A"][3] = ReadErr("parse")
    /\ rdlog["A"][3].len = PayloadLen(JObj(EmptyFields))
    /\ Len(out["A"]) = 2
    /\ pc["A"] = "returned_ok"
    /\ peer["A"] = "open"

\* C16: after an error response is written to an open stream the
\* dispatcher is back at its read with its registry intact; the next
\* request read is dispatched; and whenever the dispatcher is at its read
\* every request read so far, those after an error response included, has
\* been answered.
C16_OpenAfterErrorResponse ==
    [][\A c \in Conns :
          /\ (pc[c] = "write" /\ resp[c].error # None /\ peer[c] = "open"
                /\ pc'[c] # pc[c]) =>
                /\ pc'[c] = "read"
                /\ handlers'[c] = handlers[c]
                /\ peer'[c] = "open"
          /\ (nread'[c] # nread[c] /\ Len(out[c]) > 0
                /\ ErrorCode(out[c][Len(out[c])]) # 0
                /\ inlog'[c][Len(inlog'[c])].kind = "Request") =>
                /\ pc'[c] = "dispatch"
                /\ cur'[c] = inlog'[c][Len(inlog'[c])]
          /\ pc'[c] = "read" => Len(out'[c]) = Len(Requests(c)')]_vars

\* an unknown method and a failed handler were answered with errors, and
\* the third request on the connection was answered with a result
C16_Witness ==
    /\ Len(out["A"]) = 3
    /\ ErrorCode(out["A"][1]) = METHOD_NOT_FOUND
    /\ ErrorCode(out["A"][2]) = INTERNAL_ERROR
    /\ HasField(out["A"][3].payload, "result")
    /\ pc["A"] = "read"

\* the field serde reports when the params object of a method is empty
FirstField(method) ==
    CASE method = FS_READ -> "path"
      [] method = TERM_CREATE -> "cols"
      [] method = LSP_HOVER -> "path"
      [] OTHER -> "id"

\* a handler is about to deserialize params that lack a required field
BadParams(c) ==
    \/ pc[c] = FS_READ /\ ~IsFsReadParams(cur[c].params)
    \/ pc[c] = TERM_CREATE /\ ~IsTermCreateParams(cur[c].params)
    \/ pc[c] = TERM_DATA /\ ~IsTermDataParams(cur[c].params)
    \/ pc[c] = TERM_RESIZE /\ ~IsTermResizeParams(cur[c].params)
    \/ pc[c] = LSP_HOVER /\ ~IsStringField(cur[c].params, "path")

\* C20: a handler given params that lack a required field fails with the
\* deserialization message and does nothing else: the request gets one
\* response, with code -32603, never -32602, and that message, and the
\* terminal map, the id counter and the terminals lock are as before.
C20_ParamErrors ==
    [][\A c \in Conns :
          /\ (BadParams(c) /\ pc'[c] # pc[c]) =>
                /\ hres'[c] = Err(MissingField(FirstField(cur[c].method)))
                /\ resp'[c] = Response_err(cur[c].id, INTERNAL_ERROR,
                                           MissingField(FirstField(cur[c].method)))
                /\ resp'[c].error.v.code # INVALID_PARAMS
                /\ pc'[c] = "write"
                /\ daemonState' = daemonState
          /\ Len(out'[c]) <= Len(Requests(c)')
          /\ \A i \in 1..Len(out'[c]) :
                results'[c][i] = Err(MissingField(FirstField(Requests(c)'[i].method))) =>
                    /\ ErrorCode(out'[c][i]) = INTERNAL_ERROR
                    /\ out'[c][i].payload.f["error"].f["message"].s = results'[c][i].msg
                    /\ out'[c][i].payload.f["id"].n = Requests(c)'[i].id]_vars

(***************************************************************************)
(* protocol.rs: request ids and the codec                                  *)
(***************************************************************************)
\* the calls that have built their request
Started == {k \in CallTasks : creq[k] # NoMsg}

\* C17: the first request built in the process gets id 1; every request
\* gets the counter's value and leaves the counter one higher, so its id
\* exceeds the id of every request built before it, also when the calls
\* that build them run concurrently: the ids are pairwise distinct.
C17_NextIdMonotonic ==
    [][\A k \in CallTasks :
          creq'[k] # creq[k] =>
              /\ creq'[k].id = NEXT_ID
              /\ NEXT_ID' = NEXT_ID + 1
              /\ Started = {} => creq'[k].id = 1
              /\ \A j \in Started : creq[j].id < creq'[k].id
              /\ \A j \in Started : creq'[j] = creq[j]]_vars

\* two calls have built their requests before either registered, the
\* second task first
C17_Witness ==
    /\ cpc[1] = "register" /\ cpc[2] = "register"
    /\ creq[2].id = 1
    /\ creq[1].id = 2
    /\ NEXT_ID = 3

\* C18: every message put on the wire with write_message is read back by
\* read_message as the same message: the requests the calls send, with any
\* params, null included, and the responses the server sends, built by ok
\* with any result or by err.
C18_Roundtrip ==
    /\ \A k \in Started : read_message(write_message(creq[k])) = creq[k]
    /\ \A c \in Conns :
          resp[c] # NoMsg => read_message(write_message(resp[c])) = resp[c]

(***************************************************************************)
(* terminal/data and the PTY read                                          *)
(***************************************************************************)
\* C19: a terminal/data request that has written its input to a live
\* terminal always completes: its handler returns and its response is
\* ready to be written, whether or not the shell produces output.
C19_DataCompletes ==
    \A c \in Conns : (pc[c] = "terminal/data:read") ~> (pc[c] = "write")

(***************************************************************************)
(* terminal/data with undecodable data                                     *)
(***************************************************************************)
\* a terminal/data handler is about to decode data that is not URL-safe
\* base64
BadBase64(c) ==
    /\ pc[c] = TERM_DATA
    /\ IsTermDataParams(cur[c].params)
    /\ ~IsBase64Url(cur[c].params.f["data"].s)

\* C21: a terminal/data request whose data is not valid URL-safe base64 is
\* answered with an error response whose message starts "bad base64: "; the
\* step writes no byte to any terminal, consumes no output and does not
\* take the terminal-map lock, whether or not the id names a live session.
C21_BadBase64 ==
    [][\A c \in Conns :
          (BadBase64(c) /\ pc'[c] # pc[c]) =>
              /\ pc'[c] = "write"
              /\ hres'[c] = Err("bad base64: invalid character")
              /\ resp'[c] = Response_err(cur[c].id, INTERNAL_ERROR,
                                         "bad base64: invalid character")
              /\ terminals' = terminals
              /\ termLock' = termLock
              /\ daemonState' = daemonState]_vars

\* B was answered "bad base64" twice for term-1, which A created and which
\* has received no input
C21_Witness ==
    /\ Len(out["B"]) = 2
    /\ \A i \in 1..2 :
          /\ ErrorCode(out["B"][i]) = INTERNAL_ERROR
          /\ out["B"][i].payload.f["id"].n = 5
          /\ out["B"][i].payload.f["error"].f["message"].s
                = "bad base64: invalid character"
    /\ Len(out["A"]) = 1
    /\ DOMAIN terminals = {"term-1"}
    /\ terminals["term-1"].input = 0
    /\ terminals["term-1"].output = "none"

(***************************************************************************)
(* The registry of a connection                                            *)
(***************************************************************************)
\* C22 as stated: the registry built for a connection has a handler for
\* every method of the catalog (fs/mkdir and fs/remove among them), and no
\* request for a catalog method is answered with -32601.
C22_CatalogRegistered ==
    LET catalog ==
          {"fs/list", "fs/read", "fs/write", "fs/stat", "fs/mkdir", "fs/remove",
           "git/status", "git/diff", "git/log", "git/commit", "git/branches",
           "git/checkout",
           "terminal/create", "terminal/data", "terminal/resize",
           "terminal/close", "ai/prompt", "lsp/diagnostics", "lsp/hover"}
    IN \A c \in Conns :
          /\ pc[c] \notin {"idle", "accepted"} => catalog \subseteq handlers[c]
          /\ (pc[c] = "write" /\ cur[c].method \in catalog) =>
                (resp[c].error = None \/ resp[c].error.v.code # METHOD_NOT_FOUND)

(***************************************************************************)
(* A stream closed under a handler in flight                               *)
(***************************************************************************)
\* C23 as stated: a stream closed by the peer always leads to the
\* termination of serve on that connection, a handler in flight at the
\* close having run to completion first.
C23_ClosedStreamEnds ==
    \A c \in Conns : (peer[c] = "closed") ~> Ended(c)

(***************************************************************************)
(* Frames the dispatcher writes                                            *)
(***************************************************************************)
\* C24 as stated: no frame written by write_message carries a payload
\* longer than 16 MiB, its prefix is the payload's length, and every
\* response the dispatcher writes, whatever the size of the handler's
\* result, is a frame that read_message accepts.
C24_WrittenFramesAccepted ==
    \A c \in Conns : \A i \in 1..Len(out[c]) :
        /\ out[c][i].len <= MaxFrameLen
        /\ out[c][i].len = PayloadLen(out[c][i].payload)
        /\ read_message(out[c][i]).kind = "Response"

(***************************************************************************)
(* The terminal map lock                                                   *)
(***************************************************************************)
\* C25 as stated: no terminal handler holds the terminal-map lock at a
\* blocking point: a handler that waits in its read of the PTY has released
\* the lock before.
C25_LockFreeAtBlockingPoint ==
    \A c \in Conns : pc[c] = "terminal/data:read" => termLock # c

\* the identifier a terminal handler is about to look up, insert or remove
TargetOf(c) ==
    IF pc[c] = "terminal/create:insert" THEN local[c] ELSE cur[c].params.f["id"].s

\* a terminal handler of c is at terminals.lock().await for a session to
\* insert or a live session, other than the session whose PTY read another
\* connection is waiting in
BesideBlockedRead(c) ==
    /\ pc[c] \in {"terminal/create:insert", TERM_DATA, TERM_RESIZE, TERM_CLOSE}
    /\ pc[c] # "terminal/create:insert" => TargetOf(c) \in DOMAIN terminals
    /\ \E d \in Conns \ {c} :
          /\ pc[d] = "terminal/data:read"
          /\ TargetOf(d) # TargetOf(c)

\* C26 as stated: while a terminal/data handler of one connection waits in
\* its read of the PTY, a terminal/create, terminal/data, terminal/resize
\* or terminal/close of another connection for another terminal still gets
\* past the lock and completes.
C26_OtherTerminalsProceed ==
    \A c \in Conns :
        BesideBlockedRead(c) ~>
            (pc[c] \notin {"terminal/create:insert", TERM_DATA, TERM_RESIZE, TERM_CLOSE})

(***************************************************************************)
(* Terminal operations of several connections                              *)
(***************************************************************************)
\* the sessions inserted under identifiers minted after id
InsertedAfter(id) ==
    {t \in Range(created) :
        \E m, n \in 1..(MaxTerms + 1) : t = TermName(m) /\ id = TermName(n) /\ m > n}

\* C27 as stated: the results of the terminal operations of several
\* connections are those of some sequential order of the operations.  In a
\* sequential order a terminal/create mints and inserts at once, so the
\* sessions enter the map in the order of their identifiers: a
\* terminal/data or terminal/resize answered unknown terminal for an
\* identifier, after a session minted later has been inserted, comes after
\* a terminal/close of that identifier.
C27_SequentialOrder ==
    [][\A c \in Conns :
          (/\ AtLookup(c)
           /\ pc'[c] # pc[c]
           /\ hres'[c] = UnknownTerminal(TargetOf(c))
           /\ InsertedAfter(TargetOf(c)) # {}) =>
              TargetOf(c) \in closeExec]_vars

(***************************************************************************)
(* The end of the dispatcher loop                                          *)
(***************************************************************************)
\* C28: a read that fails (a frame refused for its length or its payload,
\* or the end of a closed stream) ends serve with Ok; from then on the
\* dispatcher reads nothing, dispatches nothing and writes nothing, however
\* many frames the peer still has to offer.
C28_StopsAfterReadFailure ==
    [][\A c \in Conns :
          /\ (nread'[c] # nread[c] /\ FramingFailed(c)') =>
                pc'[c] = "returned_ok"
          /\ (pc[c] = "read" /\ peer[c] = "closed" /\ pc'[c] # pc[c]) =>
                /\ pc'[c] = "returned_ok"
                /\ nread'[c] = nread[c]
          /\ pc[c] = "returned_ok" =>
                /\ pc'[c] = "returned_ok"
                /\ nread'[c] = nread[c]
                /\ inlog'[c] = inlog[c]
                /\ invoked'[c] = invoked[c]
                /\ results'[c] = results[c]
                /\ out'[c] = out[c]
                /\ cur'[c] = cur[c]]_vars

\* a request was answered, the next frame was refused and serve returned
\* Ok on the open stream, one frame short of what the peer may send
C28_Witness ==
    /\ pc["A"] = "returned_ok"
    /\ peer["A"] = "open"
    /\ nread["A"] = 2
    /\ nread["A"] < MaxFrames
    /\ inlog["A"][1].kind = "Request"
    /\ FramingFailed("A")
    /\ Len(out["A"]) = 1
    /\ Len(invoked["A"]) = 1

(***************************************************************************)
(* A stray response                                                        *)
(***************************************************************************)
\* C30: the step in which the dispatcher reads a Response envelope writes
\* nothing, invokes no handler, leaves the daemon state, the request in
\* flight and the response slot as they were, and leaves the dispatcher at
\* its read; the frame read next is handled as usual.
C30_StrayResponseIgnored ==
    [][\A c \in Conns :
          (nread'[c] # nread[c] /\ inlog'[c][Len(inlog'[c])].kind = "Response") =>
              /\ pc'[c] = "read"
              /\ out'[c] = out[c]
              /\ invoked'[c] = invoked[c]
              /\ results'[c] = results[c]
              /\ cur'[c] = cur[c]
              /\ resp'[c] = resp[c]
              /\ hres'[c] = hres[c]
              /\ handlers'[c] = handlers[c]
              /\ daemonState' = daemonState]_vars

\* a response was read and dropped, and the request read after it was
\* answered
C30_Witness ==
    /\ Len(inlog["A"]) = 2
    /\ inlog["A"][1].kind = "Response"
    /\ inlog["A"][2].kind = "Request"
    /\ Len(invoked["A"]) = 1
    /\ Len(out["A"]) = 1
    /\ out["A"][1].payload.f["id"].n = inlog["A"][2].id
    /\ pc["A"] = "read"

(***************************************************************************)
(* The classification of a payload                                         *)
(***************************************************************************)
\* C29 as stated, for the payloads that carry the jsonrpc member:
\* read_message decodes a payload as a Request exactly when it carries an
\* unsigned 64-bit id and a method, as a Response exactly when it carries
\* such an id and no method, as a Notification exactly when it carries a
\* method and no id member; every other payload, one whose id is present
\* and is not an unsigned 64-bit integer included, fails to parse.
C29_StructuralClassification ==
    [][\A c \in Conns :
          (nread'[c] # nread[c] /\ c2s # <<>>
                /\ IsStringField(Head(c2s).payload, "jsonrpc")) =>
              LET j == Head(c2s).payload
                  kind == inlog'[c][Len(inlog'[c])].kind
              IN /\ kind = "Request" <=> (IsU64Field(j, "id") /\ HasField(j, "method"))
                 /\ kind = "Response" <=> (IsU64Field(j, "id") /\ ~HasField(j, "method"))
                 /\ kind = "Notification" <=> (HasField(j, "method") /\ ~HasField(j, "id"))
                 /\ (HasField(j, "id") /\ ~IsU64Field(j, "id")) => kind = "Err"]_vars

(***************************************************************************)
(* Registration and accepting                                              *)
(***************************************************************************)
\* C31 as stated: no connection is accepted before the full handler set
\* has been registered.
C31_RegisteredBeforeAccept ==
    \A c \in Conns : pc[c] # "idle" => handlers[c] = Catalog

\* C31: the handler set of a connection is registered after the connection
\* is accepted and before serve reads from it: whenever the dispatcher is
\* past the start of serve its registry is the full set, no frame is read
\* on a registry that is not, and the registry never changes afterwards.
C31_RegisteredBeforeRead ==
    [][\A c \in Conns :
          /\ pc'[c] \notin {"idle", "accepted"} => handlers'[c] = Catalog
          /\ nread'[c] # nread[c] => handlers[c] = Catalog
          /\ pc[c] \notin {"idle", "accepted"} => handlers'[c] = handlers[c]]_vars

\* the connection was accepted with an empty registry, and has since read
\* a request and answered it from the full registry
C31_Witness ==
    /\ handlers["A"] = Catalog
    /\ Len(inlog["A"]) = 1
    /\ inlog["A"][1].kind = "Request"
    /\ inlog["A"][1].method = LSP_HOVER
    /\ Len(out["A"]) = 1
    /\ HasField(out["A"][1].payload, "result")
    /\ pc["A"] = "read"

(***************************************************************************)
(* A terminal/create that fails                                            *)
(***************************************************************************)
\* C32: a terminal/create that fails (params that do not deserialize, the
\* PTY not opened, the shell not spawned) is answered with an error
\* response of code -32603 and leaves the id counter, the terminal map and
\* the identifier in hand as they were; a create that has taken its
\* identifier does not fail; so the identifiers taken so far are exactly
\* term-1 .. term-(counter - 1), each inserted or about to be.
C32_FailedCreateTakesNoId ==
    [][/\ \A c \in Conns :
            /\ (pc[c] = TERM_CREATE /\ pc'[c] = "write") =>
                  /\ ~hres'[c].ok
                  /\ resp'[c] = Response_err(cur[c].id, INTERNAL_ERROR, hres'[c].msg)
                  /\ next_term_id' = next_term_id
                  /\ terminals' = terminals
                  /\ created' = created
                  /\ local' = local
            /\ (pc[c] = "terminal/create:insert" /\ pc'[c] # pc[c]) =>
                  /\ hres'[c] = Ok(JObj([id |-> JStr(local[c])]))
                  /\ local[c] \in DOMAIN terminals'
       /\ Minted' = {TermName(n) : n \in 1..(next_term_id' - 1)}]_vars

\* A was refused a create with empty params and one whose PTY did not
\* open, and then created term-1, the first identifier
C32_Witness ==
    /\ Len(out["A"]) = 3
    /\ ErrorCode(out["A"][1]) = INTERNAL_ERROR
    /\ out["A"][1].payload.f["id"].n = 6
    /\ out["A"][1].payload.f["error"].f["message"].s = MissingField("cols")
    /\ ErrorCode(out["A"][2]) = INTERNAL_ERROR
    /\ out["A"][2].payload.f["error"].f["message"].s = "Failed to open PTY"
    /\ out["A"][3] = OkFrame(1, JObj([id |-> JStr("term-1")]))
    /\ next_term_id = 2
    /\ DOMAIN terminals = {"term-1"}

(***************************************************************************)
(* RpcClient over a stream that breaks                                     *)
(***************************************************************************)
\* C33 as stated: a call that is awaiting its response when the connection
\* closes or fails eventually returns (with an error) instead of waiting
\* forever.
C33_AwaitingCallReturns ==
    \A k \in CallTasks :
        (cpc[k] = "await" /\ peer["A"] = "closed") ~> (cpc[k] = "done")

\* C34 as stated: once a call has returned, with a response or with an
\* error such as transport closed, the pending map holds no entry for the
\* id of that call.
C34_PendingOnlyAwaiting ==
    \A k \in CallTasks : cpc[k] = "done" => creq[k].id \notin DOMAIN pending

(***************************************************************************)
(* Registration of the waiter                                              *)
(***************************************************************************)
\* C35: a call is registered in the pending map before its request is
\* handed to the writer task: every request queued for the writer or on
\* the wire has its id in the map, and every response the reader task
\* takes off the stream finds the entry of the call that sent the request
\* and is handed to that call; none is dropped.
C35_RegisteredBeforeSent ==
    [][/\ \A i \in 1..Len(txq') : txq'[i].f["id"].n \in DOMAIN pending'
       /\ \A i \in 1..Len(c2s') : c2s'[i].payload.f["id"].n \in DOMAIN pending'
       /\ (readerUp /\ s2c # <<>> /\ s2c' = Tail(s2c)
             /\ read_message(Head(s2c)).kind = "Response") =>
              LET msg == read_message(Head(s2c)) IN
                /\ msg.id \in DOMAIN pending
                /\ creq[pending[msg.id]].id = msg.id
                /\ rx[pending[msg.id]] = RxEmpty
                /\ rx'[pending[msg.id]] = RxValue(msg)
                /\ msg.id \notin DOMAIN pending']_vars

\* both calls have returned, each with the response to its own id
C35_Witness ==
    /\ \A k \in CallTasks :
          /\ cpc[k] = "done"
          /\ cret[k].ok
          /\ cret[k].v.id = creq[k].id
    /\ creq[1].id # creq[2].id
    /\ pending = EmptyFields
    /\ peer["A"] = "open"

(***************************************************************************)
(* Frames of concurrent calls and notifications                            *)
(***************************************************************************)
IsPayloadChunk(ch) == ch.chunk = "payload"
\* the payloads written to the stream, then those still queued
WrittenThenQueued ==
    [i \in 1..Len(SelectSeq(c2s, IsPayloadChunk)) |->
        SelectSeq(c2s, IsPayloadChunk)[i].payload] \o txq

\* C36: the stream written by the writer task is a sequence of frames, a
\* length immediately followed by the complete payload of that length,
\* with at most one length at the end whose payload is the next to be
\* written; and the payloads reach the stream in the order in which call
\* and notify queued them: on an open stream the sequence of payloads
\* written and then queued only grows at its end.
C36_FramesNotInterleaved ==
    [][/\ \A i \in 1..Len(c2s') :
            IF i % 2 = 1
            THEN /\ c2s'[i].chunk = "len"
                 /\ IF i < Len(c2s')
                    THEN /\ c2s'[i + 1].chunk = "payload"
                         /\ c2s'[i].len = PayloadLen(c2s'[i + 1].payload)
                    ELSE writerUp' =>
                            /\ txq' # <<>>
                            /\ c2s'[i].len = PayloadLen(Head(txq'))
            ELSE c2s'[i].chunk = "payload"
       /\ peer["A"] = "open" =>
            /\ Len(WrittenThenQueued) <= Len(WrittenThenQueued')
            /\ SubSeq(WrittenThenQueued', 1, Len(WrittenThenQueued)) = WrittenThenQueued]_vars

\* a request and a notification of two concurrent tasks are on the stream,
\* each whole behind its own length, and nothing is left in the queue
C36_Witness ==
    /\ Len(c2s) = 4
    /\ c2s[2].payload = to_vec(Request(1, "echo", JObj([hello |-> JStr("world")])))
    /\ c2s[4].payload = to_vec(Notification_new("log", JObj([line |-> JStr("hello")])))
    /\ c2s[1].len = PayloadLen(c2s[2].payload)
    /\ c2s[3].len = PayloadLen(c2s[4].payload)
    /\ c2s[1].len # c2s[3].len
    /\ txq = <<>>

(***************************************************************************)
(* Pairing tokens                                                          *)
(***************************************************************************)
\* when create_pairing_token returned the token; the tokens are distinct
IssuedAt(token) ==
    (CHOOSE i \in 1..Len(issued) : issued[i].token = token)

\* C37: a validation returns true exactly when its token was returned by
\* create_pairing_token, fewer than 300 seconds lie between the creation
\* and the validation, and no earlier validation of that token returned
\* true.  So a token is accepted at most once, never once 300 seconds have
\* elapsed, and of validations of one token that race exactly one is
\* accepted.
C37_TokenSingleUse ==
    \A i \in 1..Len(verdicts) :
        verdicts[i].ok <=>
            /\ \E n \in 1..Len(issued) : issued[n].token = verdicts[i].token
            /\ verdicts[i].at - issued[IssuedAt(verdicts[i].token)].created_at
                  < TOKEN_EXPIRY_SECS
            /\ \A j \in 1..(i - 1) :
                  ~(verdicts[j].token = verdicts[i].token /\ verdicts[j].ok)

\* two threads validated token-1 in a race (the second had called before
\* the first returned): one was accepted, the other refused; a third
\* validation, of token-2 at 300 seconds of age, was refused
C37_Witness ==
    /\ Len(verdicts) = 3
    /\ verdicts[1].token = "token-1" /\ verdicts[1].ok
    /\ verdicts[2].token = "token-1" /\ ~verdicts[2].ok
    /\ verdicts[2].seen = 0
    /\ verdicts[3].token = "token-2" /\ ~verdicts[3].ok
    /\ Len(issued) = 2
    /\ verdicts[3].at - issued[2].created_at = TOKEN_EXPIRY_SECS
====
